---- MODULE Spec2Model ----
(***************************************************************************)
(* Verification model of ftp-winmount: the WinFsp filesystem translator    *)
(* (pyftpdrive/filesystem.py), its TTL caches (ftp_winmount/cache.py) and  *)
(* the retry loops of the FTP, SFTP and Google Drive back-ends.            *)
(*                                                                         *)
(* Paths are sequences of one-character strings, so that the path          *)
(* conversions are computed character by character as the code does.       *)
(* Byte strings are sequences over Bytes; 0 is the NUL byte that BytesIO   *)
(* and set_file_size use for padding.                                      *)
(***************************************************************************)
EXTENDS Integers, Sequences, FiniteSets, TLC

VARIABLES
    remote,      \* the FTP server's tree: canonical path -> [kind, data]
    handle,      \* the OpenedContext of the one host-driver handle
    meta_cache,  \* FTPFileSystem.meta_cache._cache : path -> entry
    dir_cache,   \* FTPFileSystem.dir_cache._cache  : path -> entry
    now,         \* time.time()
    last,        \* what the most recent callback was given, did and returned
    steps,       \* number of callbacks the host driver has made
    scen,        \* progress of the handle through create; write; cleanup
    slog,        \* back-end calls issued on behalf of the handle while scen > 0
    wrote,       \* the latest write on the handle, while only reads or the cleanup followed
    backend,     \* which back-end's _with_retry the threads run
    pc,          \* per thread: its position inside _with_retry
    attempt,     \* per thread: the loop variable of _with_retry
    tries,       \* per thread: attempts made by the current operation
    lock,        \* holder of the back-end's self._lock
    outcome,     \* per thread: how its latest attempt ended (last_exception)
    result,      \* per thread: what _with_retry gave to its caller
    delays,      \* per thread: the delays the current operation has slept
    perm,        \* per thread: the first attempt that ended in a permanent kind
    alltrans,    \* per thread: every attempt so far ended in a transient error
    under_test,  \* the cache object a cache test drives
    ttl_seconds, \* the ttl_seconds that cache was built with
    path_cache,  \* PathCache._cache : path -> (file_id, timestamp)
    drive,       \* Google Drive's tree: path -> file ID
    hist,        \* per key: the latest put not invalidated since (payload, instant)
    got,         \* what the most recent cache lookup met and returned
    thread_lock, \* holder of FTPFileSystem._thread_lock
    at,          \* per thread: its position inside the callback it runs
    local,       \* per thread: the local variables of that callback
    ver,         \* number of changes the server has carried out
    src,         \* per cache key: the ver at which the stored value was fetched
    completed,   \* per cache key: the ver left by the latest finished callback that invalidated it
    content,     \* the bytes of the one remote file a client is driven against
    rest_reply,  \* what the FTP server says of REST and does with it
    io,          \* the latest read_file or write_file: arguments, content before, result
    cache_lock   \* per cache object: holder of its self._lock

vars == <<remote, handle, meta_cache, dir_cache, now, last, steps, scen, slog, wrote,
          backend, pc, attempt, tries, lock, outcome, result, delays, perm, alltrans,
          under_test, ttl_seconds, path_cache, drive, hist, got,
          thread_lock, at, local, ver, src, completed, content, rest_reply, io,
          cache_lock>>

fsvars == <<remote, handle, meta_cache, dir_cache, now, last, steps, scen, slog, wrote>>
retryvars == <<backend, pc, attempt, tries, lock, outcome, result, delays, perm, alltrans>>
cachevars == <<under_test, ttl_seconds, path_cache, drive, hist, got>>
opvars == <<thread_lock, at, local, ver, src, completed, cache_lock>>
iovars == <<content, rest_reply, io>>

\* what a cache test leaves alone of the translator
idlevars == <<remote, handle, last, steps, scen, slog, wrote>>

-----------------------------------------------------------------------------
(* Bounds of the model *)

\* longest write buffer, and largest offset and size argument, in bytes
MaxLen == 2

\* last instant the clock reaches
MaxTime == 1

\* number of events (callbacks and clock ticks) in a run
MaxSteps == 3

\* the byte values; 0 is NUL
Bytes == {0, 1}

\* the paths the host driver passes in, in Windows form
WinPaths == { <<"\\">>, <<"\\", "s">>, <<"\\", "d">>,
              <<"\\", "s", "\\", "x">>, <<"\\", "d", "\\", "x">> }

-----------------------------------------------------------------------------
(* Python string operations used by the path code *)

RECURSIVE lstrip(_, _)
lstrip(s, c) == IF s # <<>> /\ Head(s) = c THEN lstrip(Tail(s), c) ELSE s

RECURSIVE rstrip(_, _)
rstrip(s, c) ==
    IF s # <<>> /\ s[Len(s)] = c THEN rstrip(SubSeq(s, 1, Len(s) - 1), c) ELSE s

replace(s, a, b) == [i \in 1..Len(s) |-> IF s[i] = a THEN b ELSE s[i]]

startswith(s, c) == s # <<>> /\ Head(s) = c

contains(s, c) == \E i \in 1..Len(s) : s[i] = c

\* index of the last occurrence of c in s, 0 when there is none
rfind(s, c) ==
    IF contains(s, c) THEN CHOOSE i \in 1..Len(s) :
                              s[i] = c /\ \A j \in (i + 1)..Len(s) : s[j] # c
    ELSE 0

\* s.rsplit(c, 1)[0] and s.rsplit(c, 1)[-1]
rsplit_head(s, c) == IF contains(s, c) THEN SubSeq(s, 1, rfind(s, c) - 1) ELSE s
rsplit_tail(s, c) == SubSeq(s, rfind(s, c) + 1, Len(s))

\* FTPFileSystem._to_ftp_path
to_ftp_path(win_path) ==
    LET path == replace(lstrip(win_path, "\\"), "\\", "/")
    IN  IF path = <<>> THEN <<"/">>
        ELSE IF ~startswith(path, "/") THEN <<"/">> \o path ELSE path

\* FTPClient._normalize_path
normalize_path(path) ==
    LET p == replace(path, "\\", "/")
    IN  IF ~startswith(p, "/") THEN <<"/">> \o p ELSE p

\* a parent computation that gives back the normalized path itself
parent_is_self(path) ==
    LET normalized == rstrip(replace(path, "\\", "/"), "/")
    IN  IF normalized = <<>> THEN <<"/">> ELSE normalized

\* the parent computed by DirectoryCache.invalidate_parent
parent_of(path) ==
    LET normalized == rstrip(replace(path, "\\", "/"), "/")
    IN  IF contains(normalized, "/")
        THEN (IF rsplit_head(normalized, "/") = <<>> THEN <<"/">>
              ELSE rsplit_head(normalized, "/"))
        ELSE <<"/">>

\* the child key built by read_directory
child_path(path, name) == rstrip(path, "/") \o <<"/">> \o name

Root == <<"/">>
RPaths == { to_ftp_path(w) : w \in WinPaths }

-----------------------------------------------------------------------------
(* The remote store as the FTP back-end (FTPClient) presents it.           *)
(* Every method returns [err, rem, data, stats, list]: err is "none" on    *)
(* success, otherwise the kind of the exception raised to the translator.  *)
(* The argument f is a failure of the server or the network during the     *)
(* call ("none": the call runs against the tree undisturbed).              *)

\* FileNotFoundError, PermissionError, TimeoutError, FileExistsError,
\* OSError("... not empty ...") and any other OSError
ErrKinds == {"NotFound", "AccessDenied", "TimedOut", "AlreadyExists",
             "NotEmpty", "IOError"}

\* the failures the server or the network can cause in any call, whatever
\* the tree holds
Faults == {"none", "NotFound", "AccessDenied", "TimedOut", "IOError"}

NoEntry == [kind |-> "none", data |-> <<>>]
FileEntry(d) == [kind |-> "file", data |-> d]
DirEntry == [kind |-> "dir", data |-> <<>>]

NoStats == [size |-> 0, is_dir |-> FALSE]

Res(e, r, d, st, l) == [err |-> e, rem |-> r, data |-> d, stats |-> st, list |-> l]
Fail(e, r) == Res(e, r, <<>>, NoStats, <<>>)
Done(r) == Res("none", r, <<>>, NoStats, <<>>)

exists(rem, p) == p = Root \/ (p \in DOMAIN rem /\ rem[p].kind # "none")
is_dir(rem, p) == p = Root \/ (p \in DOMAIN rem /\ rem[p].kind = "dir")
is_file(rem, p) == p # Root /\ p \in DOMAIN rem /\ rem[p].kind = "file"

children(rem, p) ==
    {q \in DOMAIN rem : q # Root /\ rem[q].kind # "none" /\ parent_of(q) = p}

\* FileStats of the entry stored at q
FileStatsOf(rem, q) ==
    [name |-> rsplit_tail(q, "/"),
     size |-> IF is_file(rem, q) THEN Len(rem[q].data) ELSE 0,
     is_dir |-> is_dir(rem, q)]

\* the order in which the server lists entries
ListOrder == <<<<"/", "d">>, <<"/", "s">>, <<"/", "d", "/", "x">>, <<"/", "s", "/", "x">>>>

listing(rem, qs) ==
    LET sel == SelectSeq(ListOrder, LAMBDA q : q \in qs)
    IN  [i \in 1..Len(sel) |-> FileStatsOf(rem, sel[i])]

\* data[offset:] and data[:length] of Python; length -1 stands for None
slice(data, offset, length) ==
    LET from == IF offset > Len(data) THEN Len(data) ELSE offset
        rest == SubSeq(data, from + 1, Len(data))
    IN  IF length < 0 \/ length >= Len(rest) THEN rest ELSE SubSeq(rest, 1, length)

zeros(n) == [i \in 1..n |-> 0]

\* bytearray splice of FTPClient.write_file: pad to offset, then
\* existing[offset : offset + len(data)] = data
splice(existing, data, offset) ==
    LET padded == IF offset > Len(existing)
                  THEN existing \o zeros(offset - Len(existing)) ELSE existing
    IN  SubSeq(padded, 1, offset) \o data \o
        SubSeq(padded, offset + Len(data) + 1, Len(padded))

\* FTPClient.list_dir
ftp_list_dir(rem, path, f) ==
    LET p == normalize_path(path)
    IN  IF f # "none" THEN Fail(f, rem)
        ELSE IF ~is_dir(rem, p) THEN Fail("NotFound", rem)
        ELSE Res("none", rem, <<>>, NoStats, listing(rem, children(rem, p)))

\* FTPClient.get_file_info
ftp_get_file_info(rem, path, f) ==
    LET p == normalize_path(path)
    IN  IF f # "none" THEN Fail(f, rem)
        ELSE IF p = Root THEN Res("none", rem, <<>>, [size |-> 0, is_dir |-> TRUE], <<>>)
        ELSE IF ~exists(rem, p) THEN Fail("NotFound", rem)
        ELSE Res("none", rem, <<>>,
                 [size |-> FileStatsOf(rem, p).size, is_dir |-> is_dir(rem, p)], <<>>)

\* FTPClient.read_file
ftp_read_file(rem, path, offset, length, f) ==
    LET p == normalize_path(path)
    IN  IF f # "none" THEN Fail(f, rem)
        ELSE IF ~is_file(rem, p) THEN Fail("NotFound", rem)
        ELSE Res("none", rem, slice(rem[p].data, offset, length), NoStats, <<>>)

\* STOR of a whole file: the server replaces what is stored under p
stor(rem, p, data) ==
    IF p = Root \/ is_dir(rem, p) \/ ~is_dir(rem, parent_of(p))
    THEN Fail("NotFound", rem)
    ELSE Done([rem EXCEPT ![p] = FileEntry(data)])

\* FTPClient.write_file
ftp_write_file(rem, path, data, offset, f) ==
    LET p == normalize_path(path)
        existing == IF is_file(rem, p) THEN rem[p].data ELSE <<>>
    IN  IF f # "none" THEN Fail(f, rem)
        ELSE IF offset = 0 THEN stor(rem, p, data)
        ELSE stor(rem, p, splice(existing, data, offset))

\* FTPClient.create_file
ftp_create_file(rem, path, f) ==
    LET p == normalize_path(path)
    IN  IF f # "none" THEN Fail(f, rem) ELSE stor(rem, p, <<>>)

\* FTPClient.create_dir
ftp_create_dir(rem, path, f) ==
    LET p == normalize_path(path)
        par == parent_of(p)
    IN  IF f # "none" THEN Fail(f, rem)
        ELSE IF exists(rem, p) THEN Done(rem)
        ELSE IF is_dir(rem, par) THEN Done([rem EXCEPT ![p] = DirEntry])
        ELSE IF exists(rem, par) THEN Fail("NotFound", rem)
        ELSE Done([rem EXCEPT ![par] = DirEntry, ![p] = DirEntry])

\* FTPClient.delete_file
ftp_delete_file(rem, path, f) ==
    LET p == normalize_path(path)
    IN  IF f # "none" THEN Fail(f, rem)
        ELSE IF ~is_file(rem, p) THEN Fail("NotFound", rem)
        ELSE Done([rem EXCEPT ![p] = NoEntry])

\* FTPClient.delete_dir
ftp_delete_dir(rem, path, f) ==
    LET p == normalize_path(path)
    IN  IF f # "none" THEN Fail(f, rem)
        ELSE IF p = Root \/ ~is_dir(rem, p) THEN Fail("NotFound", rem)
        ELSE IF children(rem, p) # {} THEN Fail("NotEmpty", rem)
        ELSE Done([rem EXCEPT ![p] = NoEntry])

\* where the entry stored at q is found after old has become new
moved_from(q, old, new) ==
    IF q = new THEN old
    ELSE IF parent_of(q) = new /\ q # Root THEN child_path(old, rsplit_tail(q, "/"))
    ELSE q

\* FTPClient.rename
ftp_rename(rem, old_path, new_path, f) ==
    LET old == normalize_path(old_path)
        new == normalize_path(new_path)
    IN  IF f # "none" THEN Fail(f, rem)
        ELSE IF old = Root \/ ~exists(rem, old) THEN Fail("NotFound", rem)
        ELSE IF new = Root \/ ~is_dir(rem, parent_of(new)) \/ parent_of(new) = old
             THEN Fail("NotFound", rem)
        ELSE IF old = new THEN Done(rem)
        ELSE IF is_dir(rem, new) \/ (is_dir(rem, old) /\ exists(rem, new))
             THEN Fail("AccessDenied", rem)
        ELSE Done([q \in DOMAIN rem |->
                     IF q = old \/ (parent_of(q) = old /\ q # Root) THEN NoEntry
                     ELSE IF moved_from(q, old, new) \in DOMAIN rem
                          THEN rem[moved_from(q, old, new)]
                          ELSE NoEntry])

-----------------------------------------------------------------------------
(* DirectoryCache and MetadataCache (ftp_winmount/cache.py).  _cache is a  *)
(* dict: a function whose domain is the set of keys present.               *)

\* CacheConfig.directory_ttl_seconds and metadata_ttl_seconds, in clock ticks
directory_ttl_seconds == 1
metadata_ttl_seconds == 1

EmptyCache == [x \in {} |-> 0]

drop(c, k) == [x \in DOMAIN c \ {k} |-> c[x]]

\* a get that still serves an entry at the instant it expires
cache_get_late(c, k, t) ==
    IF k \notin DOMAIN c THEN [found |-> FALSE, data |-> <<>>, cache |-> c]
    ELSE IF t > c[k].expires_at
         THEN [found |-> FALSE, data |-> <<>>, cache |-> drop(c, k)]
         ELSE [found |-> TRUE, data |-> c[k].data, cache |-> c]

\* DirectoryCache.get / MetadataCache.get: [found, data, cache]
cache_get(c, k, t) ==
    IF k \notin DOMAIN c THEN [found |-> FALSE, data |-> <<>>, cache |-> c]
    ELSE IF t >= c[k].expires_at
         THEN [found |-> FALSE, data |-> <<>>, cache |-> drop(c, k)]
         ELSE [found |-> TRUE, data |-> c[k].data, cache |-> c]

\* DirectoryCache.put / MetadataCache.put
cache_put(c, k, v, t, ttl) ==
    [x \in DOMAIN c \cup {k} |->
        IF x = k THEN [data |-> v, expires_at |-> t + ttl] ELSE c[x]]

\* an invalidate that removes nothing
cache_invalidate_noop(c, k) == c

\* DirectoryCache.invalidate / MetadataCache.invalidate
cache_invalidate(c, k) == drop(c, k)

\* an invalidate_parent that removes nothing
invalidate_parent_noop(c, path) == c

\* DirectoryCache.invalidate_parent
invalidate_parent(c, path) == cache_invalidate(c, parent_of(path))

-----------------------------------------------------------------------------
(* OpenedContext and the translator's bookkeeping *)

\* OpenedContext.__init__; has_buffer is "buffer is not None"
OpenedContext(path, is_directory, file_size) ==
    [phase |-> "open", path |-> path, is_directory |-> is_directory,
     file_size |-> file_size, has_buffer |-> FALSE, buffer |-> <<>>,
     dirty |-> FALSE]

\* no handle is held by the host driver
NoHandle == [OpenedContext(Root, FALSE, 0) EXCEPT !.phase = "closed"]

\* a call of a back-end method, as the translator issued it
Call(op, path, data, offset, length, to) ==
    [op |-> op, path |-> path, data |-> data, offset |-> offset,
     length |-> length, to |-> to]

\* the record kept of a callback; fields a callback has no use for keep
\* these values
NoLast ==
    [op |-> "none", status |-> "OK", calls |-> <<>>, ret |-> <<>>,
     entries |-> <<>>, path |-> Root, buf |-> <<>>, offset |-> 0,
     length |-> 0, wte |-> FALSE, flag |-> FALSE, presize |-> 0,
     predirty |-> FALSE, prebuffer |-> <<>>, err |-> "none",
     faulted |-> FALSE, upload_err |-> "none", existed |-> FALSE,
     pre |-> NoEntry, marker |-> <<>>, found |-> FALSE, deleted |-> FALSE,
     predc |-> EmptyCache, premc |-> EmptyCache, prerem |-> EmptyCache]

\* the record of a callback as it is entered: the caches and the remote
\* store as the callback finds them
OnEntry ==
    [NoLast EXCEPT !.predc = dir_cache, !.premc = meta_cache, !.prerem = remote]

\* the except clauses of open, get_security_by_name, read, read_directory,
\* flush and rename; an exception no clause catches leaves the callback
\* as it is and the host driver reports an unexpected I/O error
map_lookup(e) ==
    CASE e = "NotFound" -> "ObjectNameNotFound"
      [] e = "AccessDenied" -> "AccessDenied"
      [] e = "TimedOut" -> "IOTimeout"
      [] OTHER -> "UnexpectedIOError"

\* the except clauses of create
map_create(e) ==
    CASE e = "AlreadyExists" -> "ObjectNameCollision"
      [] e = "AccessDenied" -> "AccessDenied"
      [] e = "TimedOut" -> "IOTimeout"
      [] OTHER -> "UnexpectedIOError"

\* the except clauses around the deletion in cleanup
map_cleanup(e) ==
    CASE e = "NotFound" -> "OK"
      [] e = "AccessDenied" -> "AccessDenied"
      [] e = "NotEmpty" -> "DirectoryNotEmpty"
      [] OTHER -> "AccessDenied"

\* the metadata dict stored in meta_cache
MetaOf(stats) == [file_size |-> stats.size, is_dir |-> stats.is_dir]

\* BytesIO.seek(offset) followed by BytesIO.write(data)
bytesio_write(b, offset, data) ==
    IF data = <<>> THEN b ELSE splice(b, data, offset)

ByteSeqs == UNION {[1..n -> Bytes] : n \in 0..MaxLen}

\* the history of the handle: 1 after create of a file, 2 after one
\* write at offset 0 on it, 3 after the cleanup without the delete flag
ScenStep(op, ok) ==
    CASE op = "create" /\ ok -> 1
      [] op = "write" /\ ok /\ scen = 1 -> 2
      [] op = "cleanup" /\ ok /\ scen = 2 -> 3
      [] OTHER -> 0

NoWrote == [valid |-> FALSE, buf |-> <<>>, offset |-> 0]

ObserveCalls(op, ok, calls) ==
    /\ scen' = ScenStep(op, ok)
    /\ slog' = IF ScenStep(op, ok) = 0 THEN <<>>
               ELSE IF op = "create" THEN calls ELSE slog \o calls

Observe(op, ok, calls) ==
    /\ ObserveCalls(op, ok, calls)
    /\ wrote' = IF op \in {"read", "cleanup"} THEN wrote ELSE NoWrote

-----------------------------------------------------------------------------
(* The callbacks of FTPFileSystem.  Each runs under _thread_lock from      *)
(* entry to return, so each is one step.                                   *)

\* a lookup that asks the back-end whatever the metadata cache holds
lookup_uncached(meta, rem, ftp_path, t, f) ==
    LET r == ftp_get_file_info(rem, ftp_path, f)
    IN  IF r.err = "none"
        THEN [status |-> "OK", err |-> "none", is_dir |-> r.stats.is_dir,
              file_size |-> r.stats.size,
              meta |-> cache_put(meta, ftp_path, MetaOf(r.stats), t,
                                 metadata_ttl_seconds),
              calls |-> <<Call("get_file_info", ftp_path, <<>>, 0, 0, <<>>)>>]
        ELSE [status |-> map_lookup(r.err), err |-> r.err, is_dir |-> FALSE,
              file_size |-> 0, meta |-> meta,
              calls |-> <<Call("get_file_info", ftp_path, <<>>, 0, 0, <<>>)>>]

\* the lookup that get_security_by_name and open share: the metadata cache
\* first, the back-end's get_file_info on a miss:
\* [status, err, is_dir, file_size, meta, calls]
lookup(meta, rem, ftp_path, t, f) ==
    LET cached == cache_get(meta, ftp_path, t)
        r == ftp_get_file_info(rem, ftp_path, f)
    IN  IF cached.found
        THEN [status |-> "OK", err |-> "none", is_dir |-> cached.data.is_dir,
              file_size |-> cached.data.file_size, meta |-> cached.cache,
              calls |-> <<>>]
        ELSE IF r.err = "none"
        THEN [status |-> "OK", err |-> "none", is_dir |-> r.stats.is_dir,
              file_size |-> r.stats.size,
              meta |-> cache_put(cached.cache, ftp_path, MetaOf(r.stats), t,
                                 metadata_ttl_seconds),
              calls |-> <<Call("get_file_info", ftp_path, <<>>, 0, 0, <<>>)>>]
        ELSE [status |-> map_lookup(r.err), err |-> r.err, is_dir |-> FALSE,
              file_size |-> 0, meta |-> cached.cache,
              calls |-> <<Call("get_file_info", ftp_path, <<>>, 0, 0, <<>>)>>]

\* the failures that can reach a lookup: none when the cache answers
LookupFaults(meta, ftp_path, t) ==
    IF cache_get(meta, ftp_path, t).found THEN {"none"} ELSE Faults

\* FTPFileSystem.get_security_by_name
get_security_by_name ==
    \E w \in WinPaths :
      LET ftp_path == to_ftp_path(w)
      IN  /\ \E f \in LookupFaults(meta_cache, ftp_path, now) :
                LET l == lookup(meta_cache, remote, ftp_path, now, f)
                IN  /\ meta_cache' = l.meta
                    /\ last' = [OnEntry EXCEPT !.op = "get_security_by_name",
                                    !.path = ftp_path, !.calls = l.calls,
                                    !.err = l.err, !.faulted = (f # "none"),
                                    !.status = l.status]
          /\ UNCHANGED <<remote, handle, dir_cache, now, scen, slog, wrote>>

\* FTPFileSystem.open
open ==
    /\ handle.phase = "closed"
    /\ \E w \in WinPaths :
         LET ftp_path == to_ftp_path(w)
         IN  \E f \in LookupFaults(meta_cache, ftp_path, now) :
               LET l == lookup(meta_cache, remote, ftp_path, now, f)
               IN  /\ meta_cache' = l.meta
                   /\ handle' = IF l.status = "OK"
                                THEN OpenedContext(ftp_path, l.is_dir, l.file_size)
                                ELSE handle
                   /\ last' = [OnEntry EXCEPT !.op = "open", !.path = ftp_path,
                                   !.calls = l.calls, !.err = l.err,
                                   !.faulted = (f # "none"), !.status = l.status]
    /\ Observe("open", FALSE, <<>>)
    /\ UNCHANGED <<remote, dir_cache, now>>

\* FTPFileSystem.close: nothing is done; the host driver drops the handle
close ==
    /\ handle.phase \in {"open", "cleanup"}
    /\ handle' = NoHandle
    /\ last' = [OnEntry EXCEPT !.op = "close", !.path = handle.path,
                              !.predirty = handle.dirty,
                              !.prebuffer = handle.buffer]
    /\ Observe("close", FALSE, <<>>)
    /\ UNCHANGED <<remote, meta_cache, dir_cache, now>>

\* a read that asks for the whole request, whatever is left of the file
actual_length_unclamped(length, remaining) == length

\* min(length, remaining) in read
actual_length(length, remaining) == IF length < remaining THEN length ELSE remaining

\* FTPFileSystem.read
read ==
    /\ handle.phase = "open"
    /\ \E offset \in 0..MaxLen, length \in 0..(MaxLen + 1) :
         LET rec == [OnEntry EXCEPT !.op = "read", !.path = handle.path,
                                   !.offset = offset, !.length = length,
                                   !.presize = handle.file_size,
                                   !.predirty = handle.dirty,
                                   !.prebuffer = handle.buffer]
             remaining == handle.file_size - offset
         IN  IF offset >= handle.file_size
             THEN /\ last' = rec
                  /\ remote' = remote
             ELSE \E f \in Faults :
                    LET r == ftp_read_file(remote, handle.path, offset,
                                           actual_length(length, remaining), f)
                    IN  /\ remote' = r.rem
                        /\ last' = [rec EXCEPT
                              !.calls = <<Call("read_file", handle.path, <<>>,
                                               offset,
                                               actual_length(length, remaining),
                                               <<>>)>>,
                              !.ret = r.data, !.err = r.err,
                              !.faulted = (f # "none"),
                              !.status = IF r.err = "none" THEN "OK"
                                         ELSE map_lookup(r.err)]
    /\ Observe("read", FALSE, <<>>)
    /\ UNCHANGED <<handle, meta_cache, dir_cache, now>>

\* the lazy creation of the buffer at the start of write and set_file_size:
\* [err, has_buffer, buffer, calls]
materialize(ctx, rem, f) ==
    IF ctx.has_buffer
    THEN [err |-> "none", has_buffer |-> TRUE, buffer |-> ctx.buffer, calls |-> <<>>]
    ELSE IF ctx.file_size > 0
    THEN LET r == ftp_read_file(rem, ctx.path, 0, -1, f)
             calls == <<Call("read_file", ctx.path, <<>>, 0, -1, <<>>)>>
         IN  IF r.err = "none"
             THEN [err |-> "none", has_buffer |-> TRUE, buffer |-> r.data,
                   calls |-> calls]
             ELSE IF r.err = "NotFound"
             THEN [err |-> "none", has_buffer |-> TRUE, buffer |-> <<>>,
                   calls |-> calls]
             ELSE [err |-> r.err, has_buffer |-> FALSE, buffer |-> <<>>,
                   calls |-> calls]
    ELSE [err |-> "none", has_buffer |-> TRUE, buffer |-> <<>>, calls |-> <<>>]

\* the faults that can occur while the buffer is created
MatFaults(ctx) == IF ~ctx.has_buffer /\ ctx.file_size > 0 THEN Faults ELSE {"none"}

\* a write that leaves file_size as it was
new_file_size_stale(file_size, offset, bytes_written) == file_size

\* the update of file_size at the end of write
new_file_size(file_size, offset, bytes_written) ==
    IF offset + bytes_written > file_size THEN offset + bytes_written ELSE file_size

\* FTPFileSystem.write
write ==
    /\ handle.phase = "open"
    /\ ~handle.is_directory
    /\ \E buffer \in ByteSeqs, off \in 0..MaxLen, write_to_end_of_file \in BOOLEAN,
          constrained_io \in BOOLEAN, f \in MatFaults(handle) :
         LET m == materialize(handle, remote, f)
             offset == IF write_to_end_of_file THEN handle.file_size ELSE off
             newbuf == bytesio_write(m.buffer, offset, buffer)
             bytes_written == Len(buffer)
             rec == [OnEntry EXCEPT !.op = "write", !.path = handle.path,
                        !.buf = buffer, !.offset = off,
                        !.wte = write_to_end_of_file, !.flag = constrained_io,
                        !.presize = handle.file_size,
                        !.predirty = handle.dirty, !.prebuffer = handle.buffer,
                        !.calls = m.calls, !.faulted = (f # "none")]
         IN  /\ offset + bytes_written <= MaxLen
             /\ IF m.err # "none"
                THEN /\ handle' = handle
                     /\ last' = [rec EXCEPT !.err = m.err,
                                            !.status = "UnexpectedIOError"]
                     /\ Observe("other", FALSE, m.calls)
                ELSE /\ handle' = [handle EXCEPT
                            !.has_buffer = TRUE, !.buffer = newbuf,
                            !.file_size = new_file_size(@, offset, bytes_written),
                            !.dirty = TRUE]
                     /\ last' = [rec EXCEPT !.length = bytes_written]
                     /\ ObserveCalls(IF off = 0 /\ ~write_to_end_of_file
                                     THEN "write" ELSE "other", TRUE, m.calls)
                     /\ wrote' = IF write_to_end_of_file THEN NoWrote
                                 ELSE [valid |-> TRUE, buf |-> buffer, offset |-> off]
    /\ UNCHANGED <<remote, meta_cache, dir_cache, now>>

\* FTPFileSystem.flush
flush ==
    /\ handle.phase = "open"
    /\ LET rec == [OnEntry EXCEPT !.op = "flush", !.path = handle.path,
                      !.presize = handle.file_size, !.predirty = handle.dirty,
                      !.prebuffer = handle.buffer]
       IN  IF ~handle.dirty \/ ~handle.has_buffer
           THEN /\ last' = rec
                /\ UNCHANGED <<remote, handle, meta_cache>>
           ELSE \E f \in Faults :
                  LET r == ftp_write_file(remote, handle.path, handle.buffer, 0, f)
                      ok == r.err = "none"
                  IN  /\ remote' = r.rem
                      /\ meta_cache' = IF ok THEN cache_invalidate(meta_cache, handle.path)
                                       ELSE meta_cache
                      /\ handle' = IF ok THEN [handle EXCEPT !.dirty = FALSE]
                                   ELSE handle
                      /\ last' = [rec EXCEPT
                            !.calls = <<Call("write_file", handle.path,
                                             handle.buffer, 0, 0, <<>>)>>,
                            !.err = r.err, !.faulted = (f # "none"),
                            !.status = IF ok THEN "OK" ELSE map_lookup(r.err)]
    /\ Observe("flush", FALSE, <<>>)
    /\ UNCHANGED <<dir_cache, now>>

\* the clock advances
Tick ==
    /\ now < MaxTime
    /\ now' = now + 1
    /\ last.op = "none"
    /\ steps < MaxSteps
    /\ steps' = steps + 1
    /\ UNCHANGED <<remote, handle, meta_cache, dir_cache, last, scen, slog, wrote>>

\* the wrapper of the decorator operation returns the callback's result to
\* the host driver
deliver ==
    /\ last.op # "none"
    /\ last' = NoLast
    /\ UNCHANGED <<remote, handle, meta_cache, dir_cache, now, steps, scen, slog, wrote>>

\* the host driver makes one callback
Callback(A) ==
    /\ last.op = "none"
    /\ steps < MaxSteps
    /\ A
    /\ steps' = steps + 1

\* FTPFileSystem.set_file_info; file_size is file_info["file_size"], or -1
\* when file_info has no such key
set_file_info ==
    /\ handle.phase = "open"
    /\ ~handle.is_directory
    /\ \E file_size \in -1..MaxLen :
         /\ handle' = IF file_size = 0
                      THEN [handle EXCEPT !.has_buffer = TRUE, !.buffer = <<>>,
                                          !.file_size = 0, !.dirty = TRUE]
                      ELSE handle
         /\ last' = [OnEntry EXCEPT !.op = "set_file_info", !.path = handle.path,
                        !.length = file_size, !.presize = handle.file_size,
                        !.predirty = handle.dirty, !.prebuffer = handle.buffer]
    /\ Observe("set_file_info", FALSE, <<>>)
    /\ UNCHANGED <<remote, meta_cache, dir_cache, now>>

\* FTPFileSystem.set_file_size
set_file_size ==
    /\ handle.phase = "open"
    /\ ~handle.is_directory
    /\ \E new_size \in 0..MaxLen, f \in MatFaults(handle) :
         LET m == materialize(handle, remote, f)
             current_content == m.buffer
             newbuf == IF new_size < Len(current_content)
                       THEN SubSeq(current_content, 1, new_size)
                       ELSE IF new_size > Len(current_content)
                       THEN current_content \o zeros(new_size - Len(current_content))
                       ELSE current_content
             rec == [OnEntry EXCEPT !.op = "set_file_size", !.path = handle.path,
                        !.length = new_size, !.presize = handle.file_size,
                        !.predirty = handle.dirty, !.prebuffer = handle.buffer,
                        !.calls = m.calls, !.faulted = (f # "none")]
         IN  IF m.err # "none"
             THEN /\ handle' = handle
                  /\ last' = [rec EXCEPT !.err = m.err,
                                         !.status = "UnexpectedIOError"]
                  /\ Observe("set_file_size", FALSE, m.calls)
             ELSE /\ handle' = [handle EXCEPT !.has_buffer = TRUE,
                                   !.buffer = newbuf, !.file_size = new_size,
                                   !.dirty = TRUE]
                  /\ last' = rec
                  /\ Observe("set_file_size", FALSE, m.calls)
    /\ UNCHANGED <<remote, meta_cache, dir_cache, now>>

\* FTPFileSystem.overwrite
overwrite ==
    /\ handle.phase = "open"
    /\ ~handle.is_directory
    /\ handle' = [handle EXCEPT !.has_buffer = TRUE, !.buffer = <<>>,
                                !.file_size = 0, !.dirty = TRUE]
    /\ last' = [OnEntry EXCEPT !.op = "overwrite", !.path = handle.path,
                   !.presize = handle.file_size, !.predirty = handle.dirty,
                   !.prebuffer = handle.buffer]
    /\ Observe("overwrite", FALSE, <<>>)
    /\ UNCHANGED <<remote, meta_cache, dir_cache, now>>

\* FTPFileSystem.create
create ==
    /\ handle.phase = "closed"
    /\ \E w \in WinPaths, is_directory \in BOOLEAN, f \in Faults :
         LET ftp_path == to_ftp_path(w)
             r == IF is_directory THEN ftp_create_dir(remote, ftp_path, f)
                  ELSE ftp_create_file(remote, ftp_path, f)
             ok == r.err = "none"
             calls == <<Call(IF is_directory THEN "create_dir" ELSE "create_file",
                             ftp_path, <<>>, 0, 0, <<>>)>>
         IN  /\ remote' = r.rem
             /\ dir_cache' = IF ok THEN invalidate_parent(dir_cache, ftp_path)
                             ELSE dir_cache
             /\ handle' = IF ok
                          THEN [OpenedContext(ftp_path, is_directory, 0) EXCEPT
                                   !.has_buffer = ~is_directory]
                          ELSE handle
             /\ last' = [OnEntry EXCEPT !.op = "create", !.path = ftp_path,
                            !.flag = is_directory, !.calls = calls,
                            !.err = r.err, !.faulted = (f # "none"),
                            !.existed = exists(remote, ftp_path),
                            !.pre = IF ftp_path \in DOMAIN remote
                                    THEN remote[ftp_path] ELSE DirEntry,
                            !.status = IF ok THEN "OK" ELSE map_create(r.err)]
             /\ Observe(IF is_directory THEN "other" ELSE "create", ok, calls)
    /\ UNCHANGED <<meta_cache, now>>

\* an upload at cleanup that does not look at the dirty flag
cleanup_upload_always(ctx, rem, meta, f) ==
    IF ctx.has_buffer
    THEN LET r == ftp_write_file(rem, ctx.path, ctx.buffer, 0, f)
             calls == <<Call("write_file", ctx.path, ctx.buffer, 0, 0, <<>>)>>
         IN  IF r.err = "none"
             THEN [rem |-> r.rem, meta |-> cache_invalidate(meta, ctx.path),
                   dirty |-> FALSE, calls |-> calls, err |-> "none"]
             ELSE [rem |-> rem, meta |-> meta, dirty |-> ctx.dirty,
                   calls |-> calls, err |-> r.err]
    ELSE [rem |-> rem, meta |-> meta, dirty |-> ctx.dirty, calls |-> <<>>,
          err |-> "none"]

\* the upload at the start of cleanup: [rem, meta, dirty, calls, err]
cleanup_upload(ctx, rem, meta, f) ==
    IF ctx.dirty /\ ctx.has_buffer
    THEN LET r == ftp_write_file(rem, ctx.path, ctx.buffer, 0, f)
             calls == <<Call("write_file", ctx.path, ctx.buffer, 0, 0, <<>>)>>
         IN  IF r.err = "none"
             THEN [rem |-> r.rem, meta |-> cache_invalidate(meta, ctx.path),
                   dirty |-> FALSE, calls |-> calls, err |-> "none"]
             ELSE [rem |-> rem, meta |-> meta, dirty |-> ctx.dirty,
                   calls |-> calls, err |-> r.err]
    ELSE [rem |-> rem, meta |-> meta, dirty |-> ctx.dirty, calls |-> <<>>,
          err |-> "none"]

\* a cleanup that raises what the upload raised
cleanup_upload_status_raised(err) ==
    IF err = "none" THEN "OK" ELSE map_lookup(err)

\* except Exception around the upload in cleanup: the failure is logged
\* and cleanup goes on
cleanup_upload_status(err) == "OK"

\* FTPFileSystem.cleanup; delete is flags & FspCleanupDelete
cleanup ==
    /\ handle.phase = "open"
    /\ \E delete \in BOOLEAN,
          f1 \in (IF handle.dirty /\ handle.has_buffer THEN Faults ELSE {"none"}) :
         LET u == cleanup_upload(handle, remote, meta_cache, f1)
             rec == [OnEntry EXCEPT !.op = "cleanup", !.path = handle.path,
                        !.flag = delete, !.presize = handle.file_size,
                        !.predirty = handle.dirty, !.prebuffer = handle.buffer,
                        !.faulted = (f1 # "none"), !.upload_err = u.err]
         IN  IF ~delete \/ cleanup_upload_status(u.err) # "OK"
             THEN /\ remote' = u.rem
                  /\ meta_cache' = u.meta
                  /\ dir_cache' = dir_cache
                  /\ handle' = [handle EXCEPT !.dirty = u.dirty, !.phase = "cleanup"]
                  /\ last' = [rec EXCEPT !.calls = u.calls,
                                         !.status = cleanup_upload_status(u.err)]
                  /\ Observe("cleanup", TRUE, u.calls)
             ELSE \E f2 \in Faults :
                    LET r == IF handle.is_directory
                             THEN ftp_delete_dir(u.rem, handle.path, f2)
                             ELSE ftp_delete_file(u.rem, handle.path, f2)
                        ok == r.err = "none"
                        calls == u.calls \o
                                 <<Call(IF handle.is_directory THEN "delete_dir"
                                        ELSE "delete_file",
                                        handle.path, <<>>, 0, 0, <<>>)>>
                    IN  /\ remote' = r.rem
                        /\ dir_cache' =
                             IF ~ok THEN dir_cache
                             ELSE IF handle.is_directory
                             THEN invalidate_parent(
                                    cache_invalidate(dir_cache, handle.path),
                                    handle.path)
                             ELSE invalidate_parent(dir_cache, handle.path)
                        /\ meta_cache' = IF ok THEN cache_invalidate(u.meta, handle.path)
                                         ELSE u.meta
                        /\ handle' = [handle EXCEPT !.dirty = u.dirty,
                                                    !.phase = "cleanup"]
                        /\ last' = [rec EXCEPT !.calls = calls, !.deleted = ok,
                              !.err = IF r.err = "NotFound" THEN "none" ELSE r.err,
                              !.faulted = (f1 # "none" \/ f2 # "none"),
                              !.status = IF ok THEN "OK" ELSE map_cleanup(r.err)]
                        /\ Observe("other", FALSE, calls)
    /\ UNCHANGED now

\* a pre-check that lets every destination pass
never_collides(replace_if_exists, err) == FALSE

\* if not replace_if_exists: get_file_info(new) returned, so
\* NTStatusObjectNameCollision is raised
collides(replace_if_exists, err) == ~replace_if_exists /\ err = "none"

\* the check of the destination at the start of rename:
\* [go, rem, calls, err, status, found, deleted]; go means the rename
\* itself is reached, found that get_file_info(new) returned, deleted that
\* the delete of the destination returned
rename_precheck(rem, new, replace_if_exists, f1, f2) ==
    LET r1 == ftp_get_file_info(rem, new, f1)
        c1 == <<Call("get_file_info", new, <<>>, 0, 0, <<>>)>>
        r2 == IF r1.stats.is_dir THEN ftp_delete_dir(rem, new, f2)
              ELSE ftp_delete_file(rem, new, f2)
        c2 == c1 \o <<Call(IF r1.stats.is_dir THEN "delete_dir" ELSE "delete_file",
                          new, <<>>, 0, 0, <<>>)>>
    IN  IF r1.err = "NotFound"
        THEN [go |-> TRUE, rem |-> rem, calls |-> c1, err |-> "none", status |-> "OK",
              found |-> FALSE, deleted |-> FALSE]
        ELSE IF r1.err # "none"
        THEN [go |-> FALSE, rem |-> rem, calls |-> c1, err |-> r1.err,
              status |-> map_lookup(r1.err), found |-> FALSE, deleted |-> FALSE]
        ELSE IF collides(replace_if_exists, r1.err)
        THEN [go |-> FALSE, rem |-> rem, calls |-> c1, err |-> "none",
              status |-> "ObjectNameCollision", found |-> TRUE, deleted |-> FALSE]
        ELSE IF r2.err = "none" \/ r2.err = "NotFound"
        THEN [go |-> TRUE, rem |-> r2.rem, calls |-> c2, err |-> "none",
              status |-> "OK", found |-> TRUE, deleted |-> r2.err = "none"]
        ELSE [go |-> FALSE, rem |-> rem, calls |-> c2, err |-> r2.err,
              status |-> map_lookup(r2.err), found |-> TRUE, deleted |-> FALSE]

\* a rename that leaves the listing cached for the renamed directory
rename_dir_cache_parents_only(dc, old, new, is_directory) ==
    invalidate_parent(invalidate_parent(dc, old), new)

\* the dir_cache invalidations at the end of rename
rename_dir_cache(dc, old, new, is_directory) ==
    IF is_directory
    THEN cache_invalidate(invalidate_parent(invalidate_parent(dc, old), new), old)
    ELSE invalidate_parent(invalidate_parent(dc, old), new)

\* a rename that leaves the metadata cached for the old path
rename_meta_cache_new_only(meta, old, new) == cache_invalidate(meta, new)

\* the meta_cache invalidations at the end of rename
rename_meta_cache(meta, old, new) ==
    cache_invalidate(cache_invalidate(meta, old), new)

\* FTPFileSystem.rename
rename ==
    /\ handle.phase = "open"
    /\ \E file_name \in WinPaths, new_file_name \in WinPaths,
          replace_if_exists \in BOOLEAN, f1 \in Faults :
         LET old_ftp_path == to_ftp_path(file_name)
             new_ftp_path == to_ftp_path(new_file_name)
             exists_new == f1 = "none" /\ exists(remote, new_ftp_path)
         IN  /\ old_ftp_path = handle.path
             /\ ~(is_dir(remote, old_ftp_path) /\ children(remote, old_ftp_path) # {}
                  /\ parent_of(new_ftp_path) # Root)
             /\ \E f2 \in (IF replace_if_exists /\ exists_new THEN Faults ELSE {"none"}) :
                  LET pre == rename_precheck(remote, new_ftp_path, replace_if_exists, f1, f2)
                      rec == [OnEntry EXCEPT !.op = "rename", !.path = old_ftp_path,
                                 !.buf = new_ftp_path, !.flag = replace_if_exists,
                                 !.existed = exists(remote, new_ftp_path),
                                 !.predirty = handle.dirty,
                                 !.prebuffer = handle.buffer,
                                 !.pre = IF old_ftp_path \in DOMAIN remote
                                         THEN remote[old_ftp_path] ELSE DirEntry,
                                 !.found = pre.found, !.deleted = pre.deleted]
                  IN  IF ~pre.go
                      THEN /\ last' = [rec EXCEPT !.calls = pre.calls, !.err = pre.err,
                                    !.faulted = (f1 # "none" \/ f2 # "none"),
                                    !.status = pre.status]
                           /\ UNCHANGED <<remote, handle, meta_cache, dir_cache>>
                      ELSE \E f3 \in Faults :
                             LET r == ftp_rename(pre.rem, old_ftp_path, new_ftp_path, f3)
                                 ok == r.err = "none"
                                 calls == pre.calls \o
                                          <<Call("rename", old_ftp_path, <<>>, 0, 0,
                                                 new_ftp_path)>>
                             IN  /\ remote' = r.rem
                                 /\ dir_cache' =
                                      IF ~ok THEN dir_cache
                                      ELSE rename_dir_cache(dir_cache, old_ftp_path,
                                                            new_ftp_path,
                                                            handle.is_directory)
                                 /\ meta_cache' =
                                      IF ~ok THEN meta_cache
                                      ELSE rename_meta_cache(meta_cache, old_ftp_path,
                                                             new_ftp_path)
                                 /\ handle' = IF ok THEN [handle EXCEPT !.path = new_ftp_path]
                                              ELSE handle
                                 /\ last' = [rec EXCEPT !.calls = calls, !.err = r.err,
                                       !.faulted = (f1 # "none" \/ f2 # "none" \/ f3 # "none"),
                                       !.status = IF ok THEN "OK" ELSE map_lookup(r.err)]
    /\ Observe("rename", FALSE, <<>>)
    /\ UNCHANGED now

\* the entry dict that read_directory keeps in dir_cache
EntryOf(stats) == [name |-> stats.name, file_size |-> stats.size, is_dir |-> stats.is_dir]

\* a read_directory that stores no metadata for the children
put_children_noop(meta, path, stats_list, t) == meta

\* the meta_cache.put of every listed child, in listing order
RECURSIVE put_children(_, _, _, _)
put_children(meta, path, stats_list, t) ==
    IF stats_list = <<>> THEN meta
    ELSE put_children(cache_put(meta, child_path(path, Head(stats_list).name),
                                MetaOf(Head(stats_list)), t, metadata_ttl_seconds),
                      path, Tail(stats_list), t)

\* a loop that leaves out the entry named by the marker and keeps the rest
after_marker_filter(entries, marker) ==
    SelectSeq(entries, LAMBDA e : e.name # marker)

\* the loop at the end of read_directory; marker <<>> stands for None
after_marker(entries, marker) ==
    IF marker = <<>> THEN entries
    ELSE IF \E i \in 1..Len(entries) : entries[i].name = marker
    THEN SubSeq(entries,
                (CHOOSE i \in 1..Len(entries) :
                    entries[i].name = marker /\
                    \A j \in 1..(i - 1) : entries[j].name # marker) + 1,
                Len(entries))
    ELSE <<>>

Names == {<<"s">>, <<"d">>, <<"x">>}

\* FTPFileSystem.read_directory
read_directory ==
    /\ handle.phase = "open"
    /\ handle.is_directory
    /\ \E marker \in {<<>>} \cup Names :
         LET path == handle.path
             cached == cache_get(dir_cache, path, now)
             rec == [OnEntry EXCEPT !.op = "read_directory", !.path = path,
                                   !.marker = marker]
         IN  IF cached.found
             THEN /\ dir_cache' = cached.cache
                  /\ meta_cache' = meta_cache
                  /\ last' = [rec EXCEPT !.entries = after_marker(cached.data, marker)]
             ELSE \E f \in Faults :
                    LET r == ftp_list_dir(remote, path, f)
                        ok == r.err = "none"
                        cached_entries == [i \in 1..Len(r.list) |-> EntryOf(r.list[i])]
                    IN  /\ meta_cache' = IF ok THEN put_children(meta_cache, path, r.list, now)
                                         ELSE meta_cache
                        /\ dir_cache' = IF ok
                                        THEN cache_put(cached.cache, path, cached_entries,
                                                       now, directory_ttl_seconds)
                                        ELSE cached.cache
                        /\ last' = [rec EXCEPT
                              !.calls = <<Call("list_dir", path, <<>>, 0, 0, <<>>)>>,
                              !.err = r.err, !.faulted = (f # "none"),
                              !.entries = IF ok THEN after_marker(cached_entries, marker)
                                          ELSE <<>>,
                              !.status = IF ok THEN "OK" ELSE map_lookup(r.err)]
    /\ Observe("read_directory", FALSE, <<>>)
    /\ UNCHANGED <<remote, handle, now>>

-----------------------------------------------------------------------------
(* The state the run starts in *)

\* the remote tree at mount time: the directory /s holding the file /s/x
InitRemote ==
    [p \in RPaths \ {Root} |->
        IF p = <<"/", "s">> THEN DirEntry
        ELSE IF p = <<"/", "s", "/", "x">> THEN FileEntry(<<1>>)
        ELSE NoEntry]

\* the directory the host driver may have listed before the run starts
WarmDir == <<"/", "s">>

\* dir_cache after open(WarmDir); read_directory at time 0
WarmDirCache ==
    LET l == ftp_list_dir(InitRemote, WarmDir, "none").list
    IN  cache_put(EmptyCache, WarmDir, [i \in 1..Len(l) |-> EntryOf(l[i])],
                  0, directory_ttl_seconds)

\* meta_cache after open(WarmDir); read_directory at time 0
WarmMetaCache ==
    put_children(lookup(EmptyCache, InitRemote, WarmDir, 0, "none").meta,
                 WarmDir, ftp_list_dir(InitRemote, WarmDir, "none").list, 0)

\* the run starts right after the mount, or after the host driver has
\* listed WarmDir and dropped the handle
InitFS ==
    /\ remote = InitRemote
    /\ handle = NoHandle
    /\ \E warm \in BOOLEAN :
         /\ meta_cache = IF warm THEN WarmMetaCache ELSE EmptyCache
         /\ dir_cache = IF warm THEN WarmDirCache ELSE EmptyCache
    /\ now = 0
    /\ last = NoLast
    /\ steps = 0
    /\ scen = 0
    /\ slog = <<>>
    /\ wrote = NoWrote

-----------------------------------------------------------------------------
(* The three TTL caches driven directly, as test_cache.py drives them:     *)
(* DirectoryCache and MetadataCache (cache.py) and the path-to-ID cache    *)
(* PathCache (gdrive_path_cache.py) in front of a small Drive tree.        *)

\* largest ttl_seconds a cache is built with
MaxTTL == 2

\* the keys given to DirectoryCache and MetadataCache
CacheKeys == { <<"/">>, <<"/", "a">>, <<"/", "a", "/", "b">> }

\* the paths given to DirectoryCache.invalidate_parent, as the callers
\* write them
ParentArgs == { <<"/">>, <<"/", "a">>, <<"/", "a", "/">>,
               <<"/", "a", "/", "b">>, <<"\\", "a", "\\", "b">>,
               <<"/", "a", "/", "b", "/">> }

\* the listings and metadata dicts stored, up to equality
Payloads == {"v1", "v2"}

\* the paths given to PathCache, as the callers write them
RawPaths == { <<"/">>, <<"/", "a">>, <<"a">>, <<"/", "a", "/">>,
              <<"/", "a", "/", "b">>, <<"\\", "a", "\\", "b">> }

\* the items Drive may hold, by path, and the IDs Drive may give each
DrivePaths == { <<"/", "a">>, <<"/", "a", "/", "b">> }
DriveIds(p) == IF p = <<"/", "a">> THEN {"a1", "a2"} ELSE {"b1", "b2"}

\* PathCache._root_id without a shared drive
root_id == "root"

\* PathCache._normalize_path
pc_normalize_path(path) ==
    LET p == replace(path, "\\", "/")
        q == IF ~startswith(p, "/") THEN <<"/">> \o p ELSE p
    IN  IF q # Root /\ q[Len(q)] = "/" THEN rstrip(q, "/") ELSE q

\* index of the first occurrence of c in s, Len(s) + 1 when there is none
find(s, c) ==
    IF contains(s, c) THEN CHOOSE i \in 1..Len(s) :
                              s[i] = c /\ \A j \in 1..(i - 1) : s[j] # c
    ELSE Len(s) + 1

\* [x for x in path.split("/") if x]
RECURSIVE split_segments(_)
split_segments(s) ==
    IF s = <<>> THEN <<>>
    ELSE IF Head(s) = "/" THEN split_segments(Tail(s))
    ELSE <<SubSeq(s, 1, find(s, "/") - 1)>>
            \o split_segments(SubSeq(s, find(s, "/"), Len(s)))

\* "/".join(segments)
RECURSIVE join(_)
join(segments) ==
    IF segments = <<>> THEN <<>>
    ELSE IF Len(segments) = 1 THEN segments[1]
    ELSE segments[1] \o <<"/">> \o join(Tail(segments))

\* "/" + "/".join(segments[: i + 1]), with i counted from 1
partial_path(segments, i) == <<"/">> \o join(SubSeq(segments, 1, i))

\* PathCache._is_valid
is_valid(entry, t, ttl) == (t - entry.timestamp) < ttl

\* the ID Drive has for the folder at path p, "none" when there is no such
\* item
id_of(drv, p) == IF p = Root THEN root_id ELSE drv[p]

\* PathCache._find_child: the ID of the item called name in the folder
\* parent_id, "none" when there is none or when the query fails (f)
find_child(drv, parent_id, name, f) ==
    LET kids == { p \in DOMAIN drv :
                     /\ drv[p] # "none"
                     /\ rsplit_tail(p, "/") = name
                     /\ id_of(drv, parent_of(p)) = parent_id }
    IN  IF f # "none" \/ kids = {} THEN "none"
        ELSE drv[CHOOSE p \in kids : TRUE]

\* what a lookup has done so far: the ID found, the map, the entries it
\* served from the map, the keys whose entry it met expired, the keys it
\* stored
Walked(id, c, hits, expired, puts) ==
    [id |-> id, cache |-> c, hits |-> hits, expired |-> expired, puts |-> puts]

\* the loop over the segments in PathCache.resolve, from segment i on
RECURSIVE walk(_, _, _, _, _, _, _)
walk(w, drv, segments, i, t, ttl, f) ==
    IF i > Len(segments) THEN w
    ELSE
      LET pp == partial_path(segments, i)
          cached == pp \in DOMAIN w.cache
      IN  IF cached /\ is_valid(w.cache[pp], t, ttl)
          THEN walk([w EXCEPT !.id = w.cache[pp].file_id,
                              !.hits = @ \cup {[key |-> pp,
                                                data |-> w.cache[pp].file_id]}],
                    drv, segments, i + 1, t, ttl, f)
          ELSE
            LET file_id == find_child(drv, w.id, segments[i], f)
                seen == IF cached THEN w.expired \cup {pp} ELSE w.expired
            IN  IF file_id = "none"
                THEN [w EXCEPT !.id = "none", !.expired = seen]
                ELSE walk([w EXCEPT
                             !.id = file_id,
                             !.expired = seen,
                             !.puts = @ \cup {pp},
                             !.cache = [x \in DOMAIN w.cache \cup {pp} |->
                                          IF x = pp
                                          THEN [file_id |-> file_id, timestamp |-> t]
                                          ELSE w.cache[x]]],
                          drv, segments, i + 1, t, ttl, f)

\* PathCache.resolve
pc_resolve(c, drv, raw, t, ttl, f) ==
    LET path == pc_normalize_path(raw)
        cached == path \in DOMAIN c
    IN  IF path = Root THEN Walked(root_id, c, {}, {}, {})
        ELSE IF cached /\ is_valid(c[path], t, ttl)
        THEN Walked(c[path].file_id, c,
                    {[key |-> path, data |-> c[path].file_id]}, {}, {})
        ELSE walk(Walked(root_id, c, {}, IF cached THEN {path} ELSE {}, {}),
                  drv, split_segments(path), 1, t, ttl, f)

\* an invalidate_children that matches keys against the path itself, without
\* the separator
pc_invalidate_children_bare(c, raw) ==
    LET path == pc_normalize_path(raw)
        to_remove == { k \in DOMAIN c :
                          Len(k) >= Len(path) /\ SubSeq(k, 1, Len(path)) = path }
    IN  [x \in DOMAIN c \ to_remove |-> c[x]]

\* PathCache.invalidate_children
pc_invalidate_children(c, raw) ==
    LET path == pc_normalize_path(raw)
        prefix == IF path[Len(path)] = "/" THEN path ELSE path \o <<"/">>
        to_remove == { k \in DOMAIN c :
                          \/ k = path
                          \/ Len(k) >= Len(prefix) /\
                             SubSeq(k, 1, Len(prefix)) = prefix }
    IN  [x \in DOMAIN c \ to_remove |-> c[x]]

\* no lookup has just returned
NoGot == [op |-> "none", key |-> <<>>, found |-> FALSE, data |-> "none",
          hits |-> {}, expired |-> {}, puts |-> {}, pre |-> EmptyCache]

\* the _cache dict of the cache under test
CacheMap ==
    IF under_test = "directory" THEN dir_cache
    ELSE IF under_test = "metadata" THEN meta_cache
    ELSE path_cache

\* the cache under test gets the dict c; the other objects are not touched
SetCache(c) ==
    /\ dir_cache' = IF under_test = "directory" THEN c ELSE dir_cache
    /\ meta_cache' = IF under_test = "metadata" THEN c ELSE meta_cache
    /\ path_cache' = IF under_test = "path" THEN c ELSE path_cache

\* Drive at the start: the folder a holding the file b
InitDrive ==
    [p \in DrivePaths |-> IF p = <<"/", "a">> THEN "a1" ELSE "b1"]

\* the caches as their constructors leave them, with nothing under test
InitCaches ==
    /\ path_cache = EmptyCache
    /\ drive = InitDrive
    /\ hist = EmptyCache
    /\ got = NoGot

\* DirectoryCache.get / MetadataCache.get called by the test
Get(k) ==
    /\ under_test \in {"directory", "metadata"}
    /\ LET r == cache_get(CacheMap, k, now)
       IN  /\ SetCache(r.cache)
           /\ got' = [NoGot EXCEPT
                        !.op = "get", !.key = k, !.found = r.found,
                        !.data = IF r.found THEN r.data ELSE "none",
                        !.hits = IF r.found THEN {[key |-> k, data |-> r.data]}
                                 ELSE {},
                        !.expired = IF k \in DOMAIN CacheMap /\ ~r.found
                                    THEN {k} ELSE {}]
    /\ UNCHANGED <<hist, drive, now, ttl_seconds, under_test>>

\* DirectoryCache.put / MetadataCache.put called by the test
Put(k, v) ==
    /\ under_test \in {"directory", "metadata"}
    /\ SetCache(cache_put(CacheMap, k, v, now, ttl_seconds))
    /\ hist' = [x \in DOMAIN hist \cup {k} |->
                  IF x = k THEN [data |-> v, at |-> now] ELSE hist[x]]
    /\ got' = NoGot
    /\ UNCHANGED <<drive, now, ttl_seconds, under_test>>

\* DirectoryCache.invalidate / MetadataCache.invalidate called by the test
Invalidate(k) ==
    /\ under_test \in {"directory", "metadata"}
    /\ SetCache(cache_invalidate(CacheMap, k))
    /\ hist' = drop(hist, k)
    /\ got' = NoGot
    /\ UNCHANGED <<drive, now, ttl_seconds, under_test>>

\* DirectoryCache.invalidate_parent called by the test
InvalidateParent(path) ==
    /\ under_test = "directory"
    /\ SetCache(invalidate_parent(CacheMap, path))
    /\ hist' = drop(hist, parent_of(path))
    /\ got' = [NoGot EXCEPT !.op = "invalidate_parent", !.key = path,
                            !.pre = CacheMap]
    /\ UNCHANGED <<drive, now, ttl_seconds, under_test>>

\* PathCache.resolve called by GoogleDriveClient; f is a failure of the
\* Drive API during the call
Resolve(raw, f) ==
    /\ under_test = "path"
    /\ LET r == pc_resolve(path_cache, drive, raw, now, ttl_seconds, f)
       IN  /\ SetCache(r.cache)
           /\ hist' = [x \in DOMAIN hist \cup r.puts |->
                         IF x \in r.puts
                         THEN [data |-> r.cache[x].file_id, at |-> now]
                         ELSE hist[x]]
           /\ got' = [NoGot EXCEPT
                        !.op = "resolve", !.key = pc_normalize_path(raw),
                        !.found = (r.id # "none"), !.data = r.id,
                        !.hits = r.hits, !.expired = r.expired,
                        !.puts = r.puts]
    /\ UNCHANGED <<drive, now, ttl_seconds, under_test>>

\* PathCache.invalidate
PathInvalidate(raw) ==
    /\ under_test = "path"
    /\ SetCache(drop(path_cache, pc_normalize_path(raw)))
    /\ hist' = drop(hist, pc_normalize_path(raw))
    /\ got' = NoGot
    /\ UNCHANGED <<drive, now, ttl_seconds, under_test>>

\* PathCache.invalidate_children
InvalidateChildren(raw) ==
    /\ under_test = "path"
    /\ SetCache(pc_invalidate_children(path_cache, raw))
    /\ hist' = pc_invalidate_children(hist, raw)
    /\ got' = [NoGot EXCEPT !.op = "invalidate_children", !.key = raw,
                            !.pre = path_cache]
    /\ UNCHANGED <<drive, now, ttl_seconds, under_test>>

\* PathCache.clear
Clear ==
    /\ under_test = "path"
    /\ SetCache(EmptyCache)
    /\ hist' = EmptyCache
    /\ got' = NoGot
    /\ UNCHANGED <<drive, now, ttl_seconds, under_test>>

\* somebody moves the item at p, and what it holds, to the Drive trash
Trash(p) ==
    /\ under_test = "path"
    /\ drive[p] # "none"
    /\ drive' = [x \in DrivePaths |->
                   IF x = p \/ parent_of(x) = p THEN "none" ELSE drive[x]]
    /\ got' = NoGot
    /\ UNCHANGED <<dir_cache, meta_cache, path_cache, hist, now, ttl_seconds,
                   under_test>>

\* somebody uploads a new item at p, which Drive gives the ID id
Upload(p, id) ==
    /\ under_test = "path"
    /\ drive[p] = "none"
    /\ id_of(drive, parent_of(p)) # "none"
    /\ drive' = [drive EXCEPT ![p] = id]
    /\ got' = NoGot
    /\ UNCHANGED <<dir_cache, meta_cache, path_cache, hist, now, ttl_seconds,
                   under_test>>

\* time.sleep
Sleep ==
    /\ now < MaxTime
    /\ now' = now + 1
    /\ got' = NoGot
    /\ UNCHANGED <<dir_cache, meta_cache, path_cache, drive, hist, ttl_seconds,
                   under_test>>

-----------------------------------------------------------------------------
(* _with_retry of FTPClient, SFTPClient and GoogleDriveClient.  A thread   *)
(* runs one back-end operation at a time; what an attempt meets on the     *)
(* network is chosen by the environment.                                   *)

Threads == {"t1", "t2"}
Backends == {"ftp", "sftp", "gdrive"}

\* ConnectionConfig.retry_attempts and retry_delay_seconds
retry_attempts == 2
retry_delay_seconds == 1

\* how an attempt can end: cls is the exception class the except clauses
\* see ("ok": func returned), kind the error kind it stands for
Out(cls, kind) == [cls |-> cls, kind |-> kind]
NoOutcome == Out("none", "none")

Outcomes(b) ==
    CASE b = "ftp" ->
           {Out("ok", "none"),
            Out("error_perm", "NotFound"), Out("error_perm", "AccessDenied"),
            Out("error_perm", "NotEmpty"), Out("error_perm", "IOError"),
            Out("FileNotFoundError", "NotFound"),
            Out("error_temp", "Transient"), Out("socket.timeout", "Transient"),
            Out("OSError", "Transient"), Out("ConnectionError", "Transient")}
      [] b = "sftp" ->
           {Out("ok", "none"),
            Out("FileNotFoundError", "NotFound"),
            Out("PermissionError", "AccessDenied"),
            Out("OSError", "NotEmpty"),
            Out("socket.timeout", "Transient"), Out("OSError", "Transient"),
            Out("ConnectionError", "Transient"), Out("SSHException", "Transient")}
      [] b = "gdrive" ->
           {Out("ok", "none"),
            Out("FileNotFoundError", "NotFound"),
            Out("PermissionError", "AccessDenied"),
            Out("HttpError404", "NotFound"), Out("HttpError403", "AccessDenied"),
            Out("HttpError409", "AlreadyExists"),
            Out("HttpError429", "Transient"), Out("HttpError500", "Transient"),
            Out("Exception", "Transient")}

\* the classes that except OSError catches
OSErrorClasses == {"OSError", "FileNotFoundError", "PermissionError",
                   "socket.timeout", "ConnectionError", "FileExistsError"}

Permanent == {"NotFound", "AccessDenied", "AlreadyExists", "NotEmpty"}

\* the except clauses of FTPClient._with_retry, in their order:
\* [act, kind] with act "retry" or "raise"
ftp_except(o) ==
    IF o.cls \in OSErrorClasses \cup {"error_temp"}
    THEN [act |-> "retry", kind |-> "none"]
    ELSE [act |-> "raise", kind |-> o.kind]

\* the except clauses of SFTPClient._with_retry
sftp_except(o) ==
    IF o.cls = "FileNotFoundError" THEN [act |-> "raise", kind |-> "NotFound"]
    ELSE IF o.cls = "PermissionError" THEN [act |-> "raise", kind |-> "AccessDenied"]
    ELSE [act |-> "retry", kind |-> "none"]

\* the except clauses of GoogleDriveClient._with_retry
gdrive_except(o) ==
    IF o.cls = "FileNotFoundError" THEN [act |-> "raise", kind |-> "NotFound"]
    ELSE IF o.cls = "PermissionError" THEN [act |-> "raise", kind |-> "AccessDenied"]
    ELSE IF o.cls = "HttpError404" THEN [act |-> "raise", kind |-> "NotFound"]
    ELSE IF o.cls = "HttpError403" THEN [act |-> "raise", kind |-> "AccessDenied"]
    ELSE [act |-> "retry", kind |-> "none"]

on_exception(b, o) ==
    CASE b = "ftp" -> ftp_except(o)
      [] b = "sftp" -> sftp_except(o)
      [] b = "gdrive" -> gdrive_except(o)

\* a loop that runs once more than configured
loop_continues_once_more(a) == a <= retry_attempts

\* for attempt in range(retry_attempts)
loop_continues(a) == a < retry_attempts

\* if attempt < retry_attempts - 1
sleeps_before_next(a) == a < retry_attempts - 1

RECURSIVE pow2(_)
pow2(n) == IF n = 0 THEN 1 ELSE 2 * pow2(n - 1)

\* a loop that sleeps the base delay whatever the failure was
delay_after_fixed(b, o, a) == retry_delay_seconds

\* the delay slept after a failed attempt number a
delay_after(b, o, a) ==
    IF b = "gdrive" /\ o.cls = "HttpError429"
    THEN pow2(a) * retry_delay_seconds
    ELSE retry_delay_seconds

\* the exception raised once the loop is over
exhausted_kind(b, o) ==
    IF b = "ftp" /\ o.cls = "socket.timeout" THEN "TimedOut" ELSE "IOError"

InitRetry ==
    /\ pc = [t \in Threads |-> "idle"]
    /\ attempt = [t \in Threads |-> 0]
    /\ tries = [t \in Threads |-> 0]
    /\ lock = "free"
    /\ outcome = [t \in Threads |-> NoOutcome]
    /\ result = [t \in Threads |-> "none"]
    /\ delays = [t \in Threads |-> <<>>]
    /\ perm = [t \in Threads |-> [kind |-> "none", at |-> 0]]
    /\ alltrans = [t \in Threads |-> TRUE]

\* a mutex that lets every thread in
always_free(l) == TRUE

\* threading.Lock: with self._lock is entered only while no thread holds it
lock_is_free(l) == l = "free"

\* a with block that keeps the mutex when it is left
held_on_exit(t) == t

\* the holder of the mutex once the with block is left, normally or by an
\* exception
released_on_exit(t) == "free"

-----------------------------------------------------------------------------
(* read_file and write_file of the three clients, each driven directly     *)
(* against one remote file.  A length of -1 stands for None.               *)

\* an FTP server accepts REST, does not advertise it, or advertises it in
\* FEAT and answers it with a permanent error
RestSituations == {"accepted", "not_advertised", "rejected"}

\* FTPClient._probe_capabilities: self._supports_rest
supports_rest(sit) == sit # "not_advertised"

\* RETR: the server sends the file from the restart position it holds
retr(data, restart) == slice(data, restart, -1)

\* FTPClient.read_file
ftp_read_file_internal(data, offset, length, sit) ==
    LET restart == IF offset > 0 /\ supports_rest(sit) /\ sit = "accepted"
                   THEN offset ELSE 0
        got_ == retr(data, restart)
        cut == IF offset > 0 /\ ~supports_rest(sit) THEN slice(got_, offset, -1) ELSE got_
    IN  IF length >= 0 THEN slice(cut, 0, length) ELSE cut

\* SFTPClient.read_file: f.seek(offset); f.read(length)
sftp_read_file_internal(data, offset, length) == slice(data, offset, length)

\* GoogleDriveClient.read_file: data[offset:] then data[:length]
gdrive_read_file_internal(data, offset, length) == slice(slice(data, offset, -1), 0, length)

\* FTPClient.write_file: STOR of the data at offset 0, otherwise RETR, pad,
\* splice and STOR
ftp_write_file_internal(existing, data, offset) ==
    IF offset = 0 THEN data ELSE splice(existing, data, offset)

\* SFTPClient.write_file: open "wb" and write at offset 0, otherwise open
\* "r+b", seek and write (the server fills a gap with NUL bytes)
sftp_write_file_internal(existing, data, offset) ==
    IF offset = 0 THEN data ELSE splice(existing, data, offset)

\* GoogleDriveClient.write_file:
\* existing[:offset] + data + existing[offset + len(data):]
gdrive_write_file_internal(existing, data, offset) ==
    IF offset > 0
    THEN slice(existing, 0, offset) \o data \o slice(existing, offset + Len(data), -1)
    ELSE data

client_read_file(b, data, offset, length, sit) ==
    IF b = "ftp" THEN ftp_read_file_internal(data, offset, length, sit)
    ELSE IF b = "sftp" THEN sftp_read_file_internal(data, offset, length)
    ELSE gdrive_read_file_internal(data, offset, length)

client_write_file(b, existing, data, offset) ==
    IF b = "ftp" THEN ftp_write_file_internal(existing, data, offset)
    ELSE IF b = "sftp" THEN sftp_write_file_internal(existing, data, offset)
    ELSE gdrive_write_file_internal(existing, data, offset)

NoIO == [op |-> "none", offset |-> 0, length |-> 0, data |-> <<>>, pre |-> <<>>,
         out |-> <<>>, ret |-> 0]

InitIO ==
    /\ content = <<>>
    /\ rest_reply = "accepted"
    /\ io = NoIO

\* read_file(path, offset, length) returns
ReadFile(offset, length) ==
    /\ io' = [NoIO EXCEPT !.op = "read_file", !.offset = offset, !.length = length,
                          !.pre = content,
                          !.out = client_read_file(backend, content, offset, length, rest_reply)]
    /\ UNCHANGED <<content, rest_reply>>

\* write_file(path, data, offset) returns len(data)
WriteFile(data, offset) ==
    /\ offset + Len(data) <= MaxLen
    /\ content' = client_write_file(backend, content, data, offset)
    /\ io' = [NoIO EXCEPT !.op = "write_file", !.offset = offset, !.data = data,
                          !.pre = content, !.ret = Len(data)]
    /\ UNCHANGED rest_reply

-----------------------------------------------------------------------------
(* Callbacks of the translator on two threads of the host driver *)

\* the callbacks two threads of the host driver run side by side: both work
\* on the directory /s and on its file /s/x
OpDir == <<"/", "s">>
OpFile == <<"/", "s", "/", "x">>

\* most changes the server carries out in one run
MaxChanges == 2

NoLocal == [list |-> <<>>, stats |-> NoStats, ver |-> 0, inv |-> {}]

\* the caches that guard their dict with a lock of their own: dir_cache and
\* meta_cache of the translator, and the PathCache of the Drive client
CacheObjects == {"directory", "metadata", "path"}

InitOps ==
    /\ thread_lock = "free"
    /\ cache_lock = [c \in CacheObjects |-> "free"]
    /\ at = [t \in Threads |-> "idle"]
    /\ local = [t \in Threads |-> NoLocal]
    /\ ver = 0
    /\ src = [k \in {OpDir, OpFile} |-> 0]
    /\ completed = [k \in {OpDir, OpFile} |-> 0]

\* a decorator that runs the callback without the lock
operation_unlocked(l) == TRUE

\* operation: with self._thread_lock is entered only while no thread holds it
operation_enters(l) == l = "free"

\* a wrapper that gives the lock up while the body calls the back-end
released_in_body(t) == "free"

\* operation: result = fn(self, ...) runs inside with self._thread_lock, so
\* the lock stays with the thread through the back-end calls of the body
held_in_body(t) == t

\* read_directory up to dir_cache.get
rd_enter(t) ==
    /\ at[t] = "idle"
    /\ operation_enters(thread_lock)
    /\ thread_lock' = t
    /\ LET cached == cache_get(dir_cache, OpDir, now)
       IN  /\ dir_cache' = cached.cache
           /\ at' = [at EXCEPT ![t] = IF cached.found THEN "return" ELSE "list_dir"]
    /\ local' = [local EXCEPT ![t] = NoLocal]
    /\ UNCHANGED <<remote, meta_cache, ver, src, completed>>

\* read_directory: stats_list = self.ftp.list_dir(path)
rd_list(t) ==
    /\ at[t] = "list_dir"
    /\ \E f \in {"none", "IOError"} :
         LET r == ftp_list_dir(remote, OpDir, f)
         IN  IF r.err = "none"
             THEN /\ local' = [local EXCEPT ![t] = [NoLocal EXCEPT !.list = r.list,
                                                                  !.ver = ver]]
                  /\ at' = [at EXCEPT ![t] = "put"]
             ELSE /\ local' = local
                  /\ at' = [at EXCEPT ![t] = "return"]
    /\ thread_lock' = held_in_body(t)
    /\ UNCHANGED <<remote, meta_cache, dir_cache, ver, src, completed>>

\* read_directory: the meta_cache.put of every child, then dir_cache.put
rd_put(t) ==
    /\ at[t] = "put"
    /\ LET stats_list == local[t].list
           cached_entries == [i \in 1..Len(stats_list) |-> EntryOf(stats_list[i])]
           kids == {child_path(OpDir, stats_list[i].name) : i \in 1..Len(stats_list)}
       IN  /\ meta_cache' = put_children(meta_cache, OpDir, stats_list, now)
           /\ dir_cache' = cache_put(dir_cache, OpDir, cached_entries, now,
                                     directory_ttl_seconds)
           /\ src' = [k \in DOMAIN src |->
                         IF k = OpDir \/ k \in kids THEN local[t].ver ELSE src[k]]
    /\ at' = [at EXCEPT ![t] = "return"]
    /\ UNCHANGED <<remote, thread_lock, local, ver, completed>>

\* open up to meta_cache.get
open_enter(t) ==
    /\ at[t] = "idle"
    /\ operation_enters(thread_lock)
    /\ thread_lock' = t
    /\ LET cached == cache_get(meta_cache, OpFile, now)
       IN  /\ meta_cache' = cached.cache
           /\ at' = [at EXCEPT ![t] = IF cached.found THEN "return" ELSE "get_file_info"]
    /\ local' = [local EXCEPT ![t] = NoLocal]
    /\ UNCHANGED <<remote, dir_cache, ver, src, completed>>

\* open: stats = self.ftp.get_file_info(ftp_path)
open_stat(t) ==
    /\ at[t] = "get_file_info"
    /\ \E f \in {"none", "IOError"} :
         LET r == ftp_get_file_info(remote, OpFile, f)
         IN  IF r.err = "none"
             THEN /\ local' = [local EXCEPT ![t] = [NoLocal EXCEPT !.stats = r.stats,
                                                                  !.ver = ver]]
                  /\ at' = [at EXCEPT ![t] = "put_meta"]
             ELSE /\ local' = local
                  /\ at' = [at EXCEPT ![t] = "return"]
    /\ thread_lock' = held_in_body(t)
    /\ UNCHANGED <<remote, meta_cache, dir_cache, ver, src, completed>>

\* open: self.meta_cache.put(ftp_path, ...)
open_put(t) ==
    /\ at[t] = "put_meta"
    /\ meta_cache' = cache_put(meta_cache, OpFile, MetaOf(local[t].stats), now,
                               metadata_ttl_seconds)
    /\ src' = [src EXCEPT ![OpFile] = local[t].ver]
    /\ at' = [at EXCEPT ![t] = "return"]
    /\ UNCHANGED <<remote, dir_cache, thread_lock, local, ver, completed>>

\* create of a file, or cleanup with the delete flag, up to the back-end call
change_enter(t, what) ==
    /\ at[t] = "idle"
    /\ ver < MaxChanges
    /\ operation_enters(thread_lock)
    /\ thread_lock' = t
    /\ at' = [at EXCEPT ![t] = what]
    /\ local' = [local EXCEPT ![t] = NoLocal]
    /\ UNCHANGED <<remote, meta_cache, dir_cache, ver, src, completed>>

\* create: self.ftp.create_file(ftp_path); cleanup: self.ftp.delete_file(path)
change_remote(t) ==
    /\ at[t] \in {"create_file", "delete_file"}
    /\ \E f \in {"none", "IOError"} :
         LET r == IF at[t] = "create_file" THEN ftp_create_file(remote, OpFile, f)
                  ELSE ftp_delete_file(remote, OpFile, f)
         IN  IF r.err = "none"
             THEN /\ remote' = r.rem
                  /\ ver' = ver + 1
                  /\ local' = [local EXCEPT ![t] =
                        [NoLocal EXCEPT !.ver = ver + 1,
                                        !.inv = IF at[t] = "create_file" THEN {OpDir}
                                                ELSE {OpDir, OpFile}]]
                  /\ at' = [at EXCEPT ![t] = "invalidate"]
             ELSE /\ remote' = remote
                  /\ ver' = ver
                  /\ local' = local
                  /\ at' = [at EXCEPT ![t] = "return"]
    /\ thread_lock' = held_in_body(t)
    /\ UNCHANGED <<meta_cache, dir_cache, src, completed>>

\* create: dir_cache.invalidate_parent; cleanup: dir_cache.invalidate_parent
\* and meta_cache.invalidate
change_invalidate(t) ==
    /\ at[t] = "invalidate"
    /\ dir_cache' = invalidate_parent(dir_cache, OpFile)
    /\ meta_cache' = IF OpFile \in local[t].inv THEN cache_invalidate(meta_cache, OpFile)
                     ELSE meta_cache
    /\ at' = [at EXCEPT ![t] = "return"]
    /\ UNCHANGED <<remote, thread_lock, local, ver, src, completed>>

\* operation: the callback returns or raises and the with block is left
op_return(t) ==
    /\ at[t] = "return"
    /\ thread_lock' = "free"
    /\ completed' = [k \in DOMAIN completed |->
                       IF k \in local[t].inv THEN local[t].ver ELSE completed[k]]
    /\ local' = [local EXCEPT ![t] = NoLocal]
    /\ at' = [at EXCEPT ![t] = "idle"]
    /\ UNCHANGED <<remote, meta_cache, dir_cache, ver, src>>

\* what the threaded callbacks leave alone of the translator
opidle == <<handle, now, last, steps, scen, slog, wrote>>

InitOpSpec ==
    /\ InitFS
    /\ backend = "ftp"
    /\ InitRetry
    /\ under_test = "none"
    /\ ttl_seconds = 0
    /\ InitCaches
    /\ InitOps
    /\ InitIO

NextOps ==
    \E t \in Threads :
      \/ (rd_enter(t) /\ UNCHANGED <<opidle, retryvars, cachevars, iovars, cache_lock>>)
      \/ (rd_list(t) /\ UNCHANGED <<opidle, retryvars, cachevars, iovars, cache_lock>>)
      \/ (rd_put(t) /\ UNCHANGED <<opidle, retryvars, cachevars, iovars, cache_lock>>)
      \/ (open_enter(t) /\ UNCHANGED <<opidle, retryvars, cachevars, iovars, cache_lock>>)
      \/ (open_stat(t) /\ UNCHANGED <<opidle, retryvars, cachevars, iovars, cache_lock>>)
      \/ (open_put(t) /\ UNCHANGED <<opidle, retryvars, cachevars, iovars, cache_lock>>)
      \/ (change_enter(t, "create_file") /\ UNCHANGED <<opidle, retryvars, cachevars, iovars, cache_lock>>)
      \/ (change_enter(t, "delete_file") /\ UNCHANGED <<opidle, retryvars, cachevars, iovars, cache_lock>>)
      \/ (change_remote(t) /\ UNCHANGED <<opidle, retryvars, cachevars, iovars, cache_lock>>)
      \/ (change_invalidate(t) /\ UNCHANGED <<opidle, retryvars, cachevars, iovars, cache_lock>>)
      \/ (op_return(t) /\ UNCHANGED <<opidle, retryvars, cachevars, iovars, cache_lock>>)

SpecOps == InitOpSpec /\ [][NextOps]_vars

InitIOSpec ==
    /\ InitFS
    /\ backend \in Backends
    /\ InitRetry
    /\ under_test = "none"
    /\ ttl_seconds = 0
    /\ InitCaches
    /\ InitOps
    /\ content \in ByteSeqs
    /\ rest_reply \in RestSituations
    /\ io = NoIO

NextIO ==
    \/ \E offset \in 0..MaxLen, length \in {-1} \cup (0..MaxLen) :
          (ReadFile(offset, length) /\ UNCHANGED <<fsvars, retryvars, cachevars, opvars>>)
    \/ \E data \in ByteSeqs, offset \in 0..MaxLen :
          (WriteFile(data, offset) /\ UNCHANGED <<fsvars, retryvars, cachevars, opvars>>)

SpecIO == InitIOSpec /\ [][NextIO]_vars

-----------------------------------------------------------------------------
(* The steps of _with_retry *)

\* a back-end method calls _with_retry
start(t) ==
    /\ pc[t] = "idle"
    /\ pc' = [pc EXCEPT ![t] = "loop"]
    /\ attempt' = [attempt EXCEPT ![t] = 0]
    /\ tries' = [tries EXCEPT ![t] = 0]
    /\ outcome' = [outcome EXCEPT ![t] = NoOutcome]
    /\ result' = [result EXCEPT ![t] = "none"]
    /\ delays' = [delays EXCEPT ![t] = <<>>]
    /\ perm' = [perm EXCEPT ![t] = [kind |-> "none", at |-> 0]]
    /\ alltrans' = [alltrans EXCEPT ![t] = TRUE]
    /\ UNCHANGED <<backend, lock>>

\* the head of the for loop
loop_head(t) ==
    /\ pc[t] = "loop"
    /\ pc' = [pc EXCEPT ![t] = IF loop_continues(attempt[t]) THEN "acquire"
                                ELSE "exhausted"]
    /\ UNCHANGED <<backend, attempt, tries, lock, outcome, result, delays, perm, alltrans>>

\* with self._lock: of the attempt
acquire(t) ==
    /\ pc[t] = "acquire"
    /\ lock_is_free(lock)
    /\ lock' = t
    /\ pc' = [pc EXCEPT ![t] = "attempt"]
    /\ tries' = [tries EXCEPT ![t] = @ + 1]
    /\ UNCHANGED <<backend, attempt, outcome, result, delays, perm, alltrans>>

\* _ensure_connected() and func() under the lock, then the except clauses
run_attempt(t) ==
    /\ pc[t] = "attempt"
    /\ \E o \in Outcomes(backend) :
         LET h == on_exception(backend, o)
         IN  /\ lock' = released_on_exit(t)
             /\ perm' = IF o.kind \in Permanent /\ perm[t].kind = "none"
                        THEN [perm EXCEPT ![t] = [kind |-> o.kind, at |-> tries[t]]]
                        ELSE perm
             /\ alltrans' = [alltrans EXCEPT ![t] = @ /\ o.kind = "Transient"]
             /\ IF o.cls = "ok"
                THEN /\ result' = [result EXCEPT ![t] = "ok"]
                     /\ pc' = [pc EXCEPT ![t] = "done"]
                     /\ outcome' = outcome
                ELSE IF h.act = "raise"
                THEN /\ result' = [result EXCEPT ![t] = h.kind]
                     /\ pc' = [pc EXCEPT ![t] = "done"]
                     /\ outcome' = outcome
                ELSE /\ result' = result
                     /\ pc' = [pc EXCEPT ![t] = "failed"]
                     /\ outcome' = [outcome EXCEPT ![t] = o]
    /\ UNCHANGED <<backend, attempt, tries, delays>>

\* the rest of the handler of a retried exception
after_failure(t) ==
    /\ pc[t] = "failed"
    /\ IF (backend = "gdrive" /\ outcome[t].cls = "HttpError429")
          \/ sleeps_before_next(attempt[t])
       THEN /\ pc' = [pc EXCEPT ![t] = "sleep"]
            /\ delays' = [delays EXCEPT ![t] =
                            Append(@, delay_after(backend, outcome[t], attempt[t]))]
            /\ attempt' = attempt
       ELSE /\ pc' = [pc EXCEPT ![t] = "loop"]
            /\ attempt' = [attempt EXCEPT ![t] = @ + 1]
            /\ delays' = delays
    /\ UNCHANGED <<backend, tries, lock, outcome, result, perm, alltrans>>

\* time.sleep returns
wake(t) ==
    /\ pc[t] = "sleep"
    /\ IF backend = "gdrive"
       THEN /\ pc' = [pc EXCEPT ![t] = "loop"]
            /\ attempt' = [attempt EXCEPT ![t] = @ + 1]
       ELSE /\ pc' = [pc EXCEPT ![t] = "reconnect"]
            /\ attempt' = attempt
    /\ UNCHANGED <<backend, tries, lock, outcome, result, delays, perm, alltrans>>

\* with self._lock: before _disconnect_internal
reconnect(t) ==
    /\ pc[t] = "reconnect"
    /\ lock_is_free(lock)
    /\ lock' = t
    /\ pc' = [pc EXCEPT ![t] = "disconnect"]
    /\ UNCHANGED <<backend, attempt, tries, outcome, result, delays, perm, alltrans>>

\* _disconnect_internal() under the lock
disconnect(t) ==
    /\ pc[t] = "disconnect"
    /\ lock' = released_on_exit(t)
    /\ pc' = [pc EXCEPT ![t] = "loop"]
    /\ attempt' = [attempt EXCEPT ![t] = @ + 1]
    /\ UNCHANGED <<backend, tries, outcome, result, delays, perm, alltrans>>

\* the raise after the loop
exhausted(t) ==
    /\ pc[t] = "exhausted"
    /\ result' = [result EXCEPT ![t] = exhausted_kind(backend, outcome[t])]
    /\ pc' = [pc EXCEPT ![t] = "done"]
    /\ UNCHANGED <<backend, attempt, tries, lock, outcome, delays, perm, alltrans>>

\* the caller has the result
finish(t) ==
    /\ pc[t] = "done"
    /\ pc' = [pc EXCEPT ![t] = "idle"]
    /\ UNCHANGED <<backend, attempt, tries, lock, outcome, result, delays, perm, alltrans>>

\* connect() of the back-end: with self._lock, then the session is built
enter_connect(t) ==
    /\ pc[t] = "idle"
    /\ lock_is_free(lock)
    /\ lock' = t
    /\ pc' = [pc EXCEPT ![t] = "connect"]
    /\ UNCHANGED <<backend, attempt, tries, outcome, result, delays, perm, alltrans>>

\* disconnect() of the back-end: with self._lock, then the session is closed
enter_disconnect(t) ==
    /\ pc[t] = "idle"
    /\ lock_is_free(lock)
    /\ lock' = t
    /\ pc' = [pc EXCEPT ![t] = "close"]
    /\ UNCHANGED <<backend, attempt, tries, outcome, result, delays, perm, alltrans>>

\* connect() or disconnect() returns or raises
leave(t) ==
    /\ pc[t] \in {"connect", "close"}
    /\ lock' = released_on_exit(t)
    /\ pc' = [pc EXCEPT ![t] = "idle"]
    /\ UNCHANGED <<backend, attempt, tries, outcome, result, delays, perm, alltrans>>

InitRetrySpec ==
    /\ InitFS
    /\ backend \in Backends
    /\ InitRetry
    /\ under_test = "none"
    /\ ttl_seconds = 0
    /\ InitCaches
    /\ InitOps
    /\ InitIO

NextRetry ==
    \E t \in Threads :
      \/ (start(t) /\ UNCHANGED <<fsvars, cachevars, opvars, iovars>>)
      \/ (loop_head(t) /\ UNCHANGED <<fsvars, cachevars, opvars, iovars>>)
      \/ (acquire(t) /\ UNCHANGED <<fsvars, cachevars, opvars, iovars>>)
      \/ (run_attempt(t) /\ UNCHANGED <<fsvars, cachevars, opvars, iovars>>)
      \/ (after_failure(t) /\ UNCHANGED <<fsvars, cachevars, opvars, iovars>>)
      \/ (wake(t) /\ UNCHANGED <<fsvars, cachevars, opvars, iovars>>)
      \/ (reconnect(t) /\ UNCHANGED <<fsvars, cachevars, opvars, iovars>>)
      \/ (disconnect(t) /\ UNCHANGED <<fsvars, cachevars, opvars, iovars>>)
      \/ (exhausted(t) /\ UNCHANGED <<fsvars, cachevars, opvars, iovars>>)
      \/ (finish(t) /\ UNCHANGED <<fsvars, cachevars, opvars, iovars>>)
      \/ (enter_connect(t) /\ UNCHANGED <<fsvars, cachevars, opvars, iovars>>)
      \/ (enter_disconnect(t) /\ UNCHANGED <<fsvars, cachevars, opvars, iovars>>)
      \/ (leave(t) /\ UNCHANGED <<fsvars, cachevars, opvars, iovars>>)

SpecRetry == InitRetrySpec /\ [][NextRetry]_vars

-----------------------------------------------------------------------------
(* A cache driven by its test *)

\* one cache object is built with a ttl_seconds and then driven
InitCacheSpec ==
    /\ InitFS
    /\ meta_cache = EmptyCache
    /\ dir_cache = EmptyCache
    /\ under_test \in {"directory", "metadata", "path"}
    /\ ttl_seconds \in 0..MaxTTL
    /\ InitCaches
    /\ InitOps
    /\ InitIO
    /\ backend = "ftp"
    /\ InitRetry

NextCache ==
    \/ \E k \in CacheKeys : (Get(k) /\ UNCHANGED <<idlevars, retryvars, opvars, iovars>>)
    \/ \E k \in CacheKeys, v \in Payloads :
          (Put(k, v) /\ UNCHANGED <<idlevars, retryvars, opvars, iovars>>)
    \/ \E k \in CacheKeys : (Invalidate(k) /\ UNCHANGED <<idlevars, retryvars, opvars, iovars>>)
    \/ \E path \in ParentArgs :
          (InvalidateParent(path) /\ UNCHANGED <<idlevars, retryvars, opvars, iovars>>)
    \/ \E raw \in RawPaths, f \in {"none", "IOError"} :
          (Resolve(raw, f) /\ UNCHANGED <<idlevars, retryvars, opvars, iovars>>)
    \/ \E raw \in RawPaths : (PathInvalidate(raw) /\ UNCHANGED <<idlevars, retryvars, opvars, iovars>>)
    \/ \E raw \in RawPaths : (InvalidateChildren(raw) /\ UNCHANGED <<idlevars, retryvars, opvars, iovars>>)
    \/ (Clear /\ UNCHANGED <<idlevars, retryvars, opvars, iovars>>)
    \/ \E p \in DrivePaths : (Trash(p) /\ UNCHANGED <<idlevars, retryvars, opvars, iovars>>)
    \/ \E p \in DrivePaths : \E id \in DriveIds(p) :
          (Upload(p, id) /\ UNCHANGED <<idlevars, retryvars, opvars, iovars>>)
    \/ (Sleep /\ UNCHANGED <<idlevars, retryvars, opvars, iovars>>)

SpecCache == InitCacheSpec /\ [][NextCache]_vars

-----------------------------------------------------------------------------
(* PathCache.invalidate_children on a cache that holds siblings with a     *)
(* common beginning, as test_gdrive_path_cache.py fills it                 *)

SubtreeKeys == { <<"/", "a">>, <<"/", "a", "/", "b">>, <<"/", "a", "b">>, <<"/", "b">> }

SubtreeArgs == { <<"/">>, <<"/", "a">>, <<"/", "a", "/">>, <<"\\", "a">>, <<"a">>,
                 <<"/", "a", "b">>, <<"/", "b">>, <<"/", "a", "/", "b">> }

InitSubtree ==
    /\ InitFS
    /\ backend = "gdrive"
    /\ InitRetry
    /\ under_test = "path"
    /\ ttl_seconds = MaxTTL
    /\ path_cache \in { [k \in S |-> [file_id |-> "id", timestamp |-> 0]] :
                           S \in SUBSET SubtreeKeys }
    /\ drive = InitDrive
    /\ hist = EmptyCache
    /\ got = NoGot
    /\ InitOps
    /\ InitIO

NextSubtree ==
    \E raw \in SubtreeArgs :
        (InvalidateChildren(raw) /\ UNCHANGED <<idlevars, retryvars, opvars, iovars>>)

SpecSubtree == InitSubtree /\ [][NextSubtree]_vars

-----------------------------------------------------------------------------
(* GoogleDriveClient in front of a small Drive tree: the folder /a, in it   *)
(* the Google document b, the uploaded file b.docx and the folder c, and    *)
(* the free name /b.  Each method is one call that succeeds at its first    *)
(* attempt or fails; io keeps the call and what it returned (ret = 1) or    *)
(* that it raised (ret = 0); ver counts the changes Drive has carried out.  *)

DocxExt == <<".", "d", "o", "c", "x">>
TreeDoc == <<"/", "a", "/", "b">>
TreeDocx == TreeDoc \o DocxExt
TreePaths == { <<"/", "a">>, TreeDoc, TreeDocx, <<"/", "a", "/", "c">>, <<"/", "b">> }

\* the paths given to get_file_info and list_dir, and to the methods that
\* change Drive, as the callers write them
TreeArgs == { <<"/", "a">>, TreeDoc, TreeDocx, <<"/", "a", "/", "c">> }
ChangeArgs == { TreeDoc, <<"\\", "a", "\\", "b">>, <<"/", "a", "/", "b", "/">>,
                <<"/", "b">> }

\* mimeType and size of the item Drive keeps under an ID: a1, c1 and d1 are
\* folders, b1 is a Google document (it stands for the four exportable
\* types), f1 a Google form, every other ID an uploaded file
mime_of(id) ==
    CASE id \in {"a1", "c1", "d1"} -> "folder"
      [] id = "b1" -> "document"
      [] id = "f1" -> "form"
      [] OTHER -> "file"

size_of(id) == IF id = "x1" THEN 1 ELSE 0

\* WORKSPACE_EXPORT_MAP, WORKSPACE_MIMES and _EXPORT_EXTENSIONS
WORKSPACE_EXPORT_MAP == [m \in {"document"} |-> DocxExt]
WORKSPACE_MIMES == {"document", "form"}
EXPORT_EXTENSIONS == { WORKSPACE_EXPORT_MAP[m] : m \in DOMAIN WORKSPACE_EXPORT_MAP }

\* name.endswith(ext)
endswith(name, ext) ==
    Len(name) >= Len(ext) /\ SubSeq(name, Len(name) - Len(ext) + 1, Len(name)) = ext

\* GoogleDriveClient._strip_workspace_extension; <<>> stands for None
strip_workspace_extension(name) ==
    IF \E ext \in EXPORT_EXTENSIONS : endswith(name, ext)
    THEN LET ext == CHOOSE x \in EXPORT_EXTENSIONS : endswith(name, x)
         IN  SubSeq(name, 1, Len(name) - Len(ext))
    ELSE <<>>

\* path.replace("\\", "/") with a leading "/", as _resolve_path, create_file,
\* create_dir and rename write it
gd_normalized(path) ==
    LET p == replace(path, "\\", "/")
    IN  IF ~startswith(p, "/") THEN <<"/">> \o p ELSE p

\* path.rsplit("/", 1)[0] or "/"
gd_parent(path) ==
    IF rsplit_head(path, "/") = <<>> THEN Root ELSE rsplit_head(path, "/")

\* _resolve_path once the lookup of the path as given has returned direct:
\* the retry with the export extension stripped
resolve_stripped(direct, drv, path, t, ttl) ==
    LET original_name == strip_workspace_extension(rsplit_tail(path, "/"))
        parent == gd_parent(path)
        stripped_path == IF parent # Root THEN parent \o <<"/">> \o original_name
                         ELSE <<"/">> \o original_name
    IN  IF direct.id # "none" THEN direct
        ELSE IF original_name # <<>>
        THEN pc_resolve(direct.cache, drv, stripped_path, t, ttl, "none")
        ELSE direct

\* GoogleDriveClient._resolve_path; the ID "none" stands for
\* FileNotFoundError
resolve_path(c, drv, raw, t, ttl) ==
    IF gd_normalized(raw) = Root THEN Walked(root_id, c, {}, {}, {})
    ELSE CHOOSE v \in { resolve_stripped(direct, drv, gd_normalized(raw), t, ttl) :
                           direct \in {pc_resolve(c, drv, gd_normalized(raw), t, ttl,
                                                   "none")} } : TRUE

\* the path of the item Drive keeps under id
path_of_id(drv, id) == CHOOSE p \in DOMAIN drv : drv[p] = id

\* GoogleDriveClient._parse_file_stats of the metadata of the item id
parse_file_stats(drv, id) ==
    LET mime == mime_of(id)
        is_dir_ == mime = "folder"
        name == rsplit_tail(path_of_id(drv, id), "/")
    IN  [name |-> IF mime \in DOMAIN WORKSPACE_EXPORT_MAP
                     /\ ~endswith(name, WORKSPACE_EXPORT_MAP[mime])
                  THEN name \o WORKSPACE_EXPORT_MAP[mime] ELSE name,
         size |-> IF is_dir_ \/ mime \in WORKSPACE_MIMES THEN 0 ELSE size_of(id),
         is_dir |-> is_dir_]

\* _get_file_info_internal once _resolve_path has returned r
file_info_of(drv, r) ==
        IF r.id = "none" \/ (r.id # root_id /\ ~\E p \in DOMAIN drv : drv[p] = r.id)
        THEN [ok |-> FALSE, stats |-> NoStats, cache |-> r.cache]
        ELSE IF r.id = root_id
        THEN [ok |-> TRUE, stats |-> [name |-> <<>>, size |-> 0, is_dir |-> TRUE],
              cache |-> r.cache]
        ELSE [ok |-> TRUE, stats |-> parse_file_stats(drv, r.id), cache |-> r.cache]

\* GoogleDriveClient.get_file_info: [ok, stats, cache]
gd_get_file_info(c, drv, raw, t, ttl) ==
    CHOOSE v \in { file_info_of(drv, r) : r \in {resolve_path(c, drv, raw, t, ttl)} } : TRUE

\* _list_dir_internal once _resolve_path has returned r
listing_of(drv, r) ==
    LET kids == { p \in DOMAIN drv :
                     /\ drv[p] # "none"
                     /\ id_of(drv, parent_of(p)) = r.id
                     /\ ~(mime_of(drv[p]) \in WORKSPACE_MIMES
                          /\ mime_of(drv[p]) \notin DOMAIN WORKSPACE_EXPORT_MAP) }
    IN  IF r.id = "none" THEN [ok |-> FALSE, list |-> {}, cache |-> r.cache]
        ELSE [ok |-> TRUE, list |-> { parse_file_stats(drv, drv[p]) : p \in kids },
              cache |-> r.cache]

\* GoogleDriveClient.list_dir: [ok, list, cache]; the listing is kept as the
\* set of its entries
gd_list_dir(c, drv, raw, t, ttl) ==
    CHOOSE v \in { listing_of(drv, r) : r \in {resolve_path(c, drv, raw, t, ttl)} } : TRUE

\* Drive with the item at p, and what it holds, moved to the trash
trashed(drv, p) ==
    [x \in DOMAIN drv |-> IF x = p \/ parent_of(x) = p THEN "none" ELSE drv[x]]

\* the record of a call of the client
DriveCall(op, raw, to, ok, out) ==
    [NoIO EXCEPT !.op = op, !.data = raw, !.out = out, !.ret = IF ok THEN 1 ELSE 0]

\* Drive has carried out one more change when the call has succeeded
Changed(ok) ==
    /\ ver < MaxChanges
    /\ ver' = IF ok THEN ver + 1 ELSE ver

\* GoogleDriveClient.list_dir
DriveListDir(raw) ==
    /\ \E r \in {gd_list_dir(path_cache, drive, raw, now, ttl_seconds)} :
           /\ path_cache' = r.cache
           /\ io' = DriveCall("list_dir", raw, <<>>, r.ok, r.list)
    /\ UNCHANGED <<drive, ver>>

\* GoogleDriveClient.get_file_info
DriveGetFileInfo(raw) ==
    /\ \E r \in {gd_get_file_info(path_cache, drive, raw, now, ttl_seconds)} :
           /\ path_cache' = r.cache
           /\ io' = DriveCall("get_file_info", raw, <<>>, r.ok, r.stats)
    /\ UNCHANGED <<drive, ver>>

\* the invalidations at the end of write_file
after_write_file(c, path) == pc_invalidate_children(c, gd_parent(path))

\* GoogleDriveClient.write_file; f is a failure of files().update
DriveWriteFile(raw, f) ==
    /\ \E r \in {resolve_path(path_cache, drive, raw, now, ttl_seconds)} :
       LET ok == /\ r.id \notin {"none", root_id}
                 /\ mime_of(r.id) \notin WORKSPACE_MIMES
                 /\ f = "none"
       IN  /\ path_cache' = IF ok THEN after_write_file(r.cache, raw) ELSE r.cache
           /\ io' = DriveCall("write_file", raw, <<>>, ok, <<>>)
           /\ Changed(ok)
    /\ UNCHANGED drive

\* the invalidation at the end of create_file and of create_dir
after_create(c, path) == pc_invalidate_children(c, gd_parent(gd_normalized(path)))

\* files().create and the invalidation that follows it
CreateDone(op, raw, id, at_, r, ok) ==
    /\ drive' = IF ok THEN [drive EXCEPT ![at_] = id] ELSE drive
    /\ path_cache' = IF ok THEN after_create(r.cache, raw) ELSE r.cache
    /\ io' = DriveCall(op, raw, <<>>, ok, <<>>)
    /\ Changed(ok)

\* create_file and create_dir: Drive gives the new item the ID id
DriveCreate(op, raw, id, f) ==
    /\ LET path_normalized == gd_normalized(raw)
           parent_path == gd_parent(path_normalized)
           file_name == rsplit_tail(path_normalized, "/")
           at_ == child_path(pc_normalize_path(parent_path), file_name)
       IN  /\ at_ \in DOMAIN drive
           /\ drive[at_] = "none"
           /\ \A p \in DOMAIN drive : drive[p] # id
           /\ \E r \in {resolve_path(path_cache, drive, parent_path, now, ttl_seconds)},
                 ok \in {f = "none"} :
                 CreateDone(op, raw, id, at_, r, ok /\ r.id # "none")


\* GoogleDriveClient.create_file
DriveCreateFile(raw, f) == DriveCreate("create_file", raw, "n1", f)

\* GoogleDriveClient.create_dir
DriveCreateDir(raw, f) == DriveCreate("create_dir", raw, "d1", f)

\* the invalidations at the end of delete_file
after_delete_file(c, path) ==
    pc_invalidate_children(drop(c, pc_normalize_path(path)), gd_parent(path))

\* the invalidations at the end of delete_dir
after_delete_dir(c, path) ==
    pc_invalidate_children(pc_invalidate_children(c, path), gd_parent(path))

\* delete_file and delete_dir; f is a failure of files().update
DriveDelete(op, raw, f) ==
    /\ \E r \in {resolve_path(path_cache, drive, raw, now, ttl_seconds)} :
       LET ok == r.id \notin {"none", root_id} /\ f = "none"
       IN  /\ drive' = IF ok THEN trashed(drive, path_of_id(drive, r.id)) ELSE drive
           /\ path_cache' = IF ~ok THEN r.cache
                            ELSE IF op = "delete_file" THEN after_delete_file(r.cache, raw)
                            ELSE after_delete_dir(r.cache, raw)
           /\ io' = DriveCall(op, raw, <<>>, ok, <<>>)
           /\ Changed(ok)

\* GoogleDriveClient.delete_file
DriveDeleteFile(raw, f) == DriveDelete("delete_file", raw, f)

\* GoogleDriveClient.delete_dir
DriveDeleteDir(raw, f) == DriveDelete("delete_dir", raw, f)

\* the invalidations at the end of rename
after_rename(c, old_path, new_path) ==
    LET old_parent == gd_parent(gd_normalized(old_path))
        new_parent == gd_parent(gd_normalized(new_path))
        c1 == pc_invalidate_children(drop(c, pc_normalize_path(old_path)), old_parent)
    IN  IF old_parent # new_parent THEN pc_invalidate_children(c1, new_parent) ELSE c1

\* GoogleDriveClient.rename; f is a failure of files().update
DriveRename(old_path, new_path, f) ==
    /\ \E old_parent \in {gd_parent(gd_normalized(old_path))},
          new_parent \in {gd_parent(gd_normalized(new_path))},
          r \in {resolve_path(path_cache, drive, old_path, now, ttl_seconds)} :
       \E r2 \in {IF r.id = "none" \/ old_parent = new_parent THEN r
                   ELSE resolve_path(r.cache, drive, old_parent, now, ttl_seconds)} :
       \E r3 \in {IF r2.id = "none" \/ old_parent = new_parent THEN r2
                   ELSE resolve_path(r2.cache, drive, new_parent, now, ttl_seconds)} :
       LET new_name == rsplit_tail(gd_normalized(new_path), "/")
           at_ == child_path(pc_normalize_path(new_parent), new_name)
           ok == r.id \notin {"none", root_id} /\ r2.id # "none" /\ r3.id # "none"
                 /\ f = "none"
           from == path_of_id(drive, r.id)
       IN  /\ at_ \in DOMAIN drive
           /\ drive[at_] = "none"
           /\ r.id \notin {"none", root_id} =>
                 \A x \in DOMAIN drive : parent_of(x) = from => drive[x] = "none"
           /\ drive' = IF ok THEN [drive EXCEPT ![from] = "none", ![at_] = r.id]
                       ELSE drive
           /\ path_cache' = IF ok THEN after_rename(r3.cache, old_path, new_path)
                            ELSE r3.cache
           /\ io' = DriveCall("rename", old_path, new_path, ok, new_path)
           /\ Changed(ok)

InitTree ==
    /\ InitFS
    /\ meta_cache = EmptyCache
    /\ backend = "gdrive"
    /\ InitRetry
    /\ under_test = "path"
    /\ ttl_seconds = MaxTTL
    /\ path_cache = EmptyCache
    /\ drive \in { [p \in TreePaths |->
                      CASE p = <<"/", "a">> -> "a1"
                        [] p = TreeDoc -> b
                        [] p = TreeDocx -> x
                        [] p = <<"/", "a", "/", "c">> -> "c1"
                        [] OTHER -> "none"] :
                   b \in {"b1", "f1"}, x \in {"x1", "none"} }
    /\ hist = EmptyCache
    /\ got = NoGot
    /\ InitOps
    /\ InitIO

\* what the calls of the client leave alone
treeidle == <<fsvars, retryvars, thread_lock, at, local, src, completed, cache_lock,
              under_test, ttl_seconds, hist, got, content, rest_reply>>

NextTree ==
    \/ \E raw \in TreeArgs : (DriveListDir(raw) /\ UNCHANGED treeidle)
    \/ \E raw \in TreeArgs : (DriveGetFileInfo(raw) /\ UNCHANGED treeidle)
    \/ \E raw \in ChangeArgs, f \in {"none", "IOError"} :
          (DriveWriteFile(raw, f) /\ UNCHANGED treeidle)
    \/ \E raw \in ChangeArgs, f \in {"none", "IOError"} :
          (DriveCreateFile(raw, f) /\ UNCHANGED treeidle)
    \/ \E raw \in ChangeArgs, f \in {"none", "IOError"} :
          (DriveCreateDir(raw, f) /\ UNCHANGED treeidle)
    \/ \E raw \in ChangeArgs, f \in {"none", "IOError"} :
          (DriveDeleteFile(raw, f) /\ UNCHANGED treeidle)
    \/ \E raw \in ChangeArgs, f \in {"none", "IOError"} :
          (DriveDeleteDir(raw, f) /\ UNCHANGED treeidle)
    \/ \E old_path \in ChangeArgs, new_path \in {<<"/", "b">>, TreeDoc},
          f \in {"none", "IOError"} :
          (DriveRename(old_path, new_path, f) /\ UNCHANGED treeidle)

SpecTree == InitTree /\ [][NextTree]_vars

-----------------------------------------------------------------------------
(* The locks a callback takes on its way: _thread_lock of the translator,   *)
(* the lock of a cache around each access to its dict, and self._lock of    *)
(* the back-end around each attempt of _with_retry and around the reconnect *)
(* after a failed attempt; the Drive client enters the PathCache while it   *)
(* holds self._lock.  The thread that unmounts calls disconnect() outside   *)
(* any callback.                                                            *)

\* a with block of a cache that keeps the lock when it is left
cache_lock_kept(t) == t

\* with self._lock of a cache is left: the lock is free again
cache_lock_released(t) == "free"

\* the cache whose lock a thread at position a asks for or holds
cache_at(a) ==
    CASE a \in {"get_wait", "in_get"} -> "metadata"
      [] a \in {"path_wait", "in_path"} -> "path"
      [] OTHER -> "directory"

\* the positions at which a thread is blocked in the acquire of a lock
LockWaits == {"want", "get_wait", "put_wait", "path_wait", "mutex_wait",
              "reconnect_wait", "close_wait"}

\* the host driver hands a callback to the thread
lk_request(t) ==
    /\ at[t] = "idle"
    /\ at' = [at EXCEPT ![t] = "want"]
    /\ UNCHANGED <<thread_lock, lock, cache_lock, attempt>>

\* operation: with self._thread_lock is entered
lk_enter(t) ==
    /\ at[t] = "want"
    /\ operation_enters(thread_lock)
    /\ thread_lock' = t
    /\ at' = [at EXCEPT ![t] = "get_wait"]
    /\ UNCHANGED <<lock, cache_lock, attempt>>

\* with self._lock of a cache is entered: get, put, invalidate of the
\* translator's caches, and the lookups and stores of PathCache.resolve
lk_cache_acquire(t) ==
    /\ at[t] \in {"get_wait", "put_wait", "path_wait"}
    /\ cache_lock[cache_at(at[t])] = "free"
    /\ cache_lock' = [cache_lock EXCEPT ![cache_at(at[t])] = t]
    /\ at' = [at EXCEPT ![t] = CASE at[t] = "get_wait" -> "in_get"
                                 [] at[t] = "put_wait" -> "in_put"
                                 [] OTHER -> "in_path"]
    /\ UNCHANGED <<thread_lock, lock, attempt>>

\* the with block of the cache is left; after the get the callback returns
\* what the cache held or calls the back-end
lk_cache_release(t) ==
    /\ at[t] \in {"in_get", "in_put", "in_path"}
    /\ cache_lock' = [cache_lock EXCEPT ![cache_at(at[t])] = cache_lock_released(t)]
    /\ \E hit \in BOOLEAN :
         at' = [at EXCEPT ![t] = CASE at[t] = "in_get" /\ hit -> "return"
                                   [] at[t] = "in_get" /\ ~hit -> "loop"
                                   [] at[t] = "in_put" -> "return"
                                   [] OTHER -> "attempt_rest"]
    /\ attempt' = [attempt EXCEPT ![t] = IF at[t] = "in_get" THEN 0 ELSE @]
    /\ UNCHANGED <<thread_lock, lock>>

\* the head of the for loop of _with_retry; past the last attempt the
\* OSError goes up through the callback
lk_loop(t) ==
    /\ at[t] = "loop"
    /\ at' = [at EXCEPT ![t] = IF loop_continues(attempt[t]) THEN "mutex_wait"
                                ELSE "return"]
    /\ UNCHANGED <<thread_lock, lock, cache_lock, attempt>>

\* with self._lock of the back-end is entered: for an attempt, for the
\* reconnect after a sleep, for disconnect()
lk_mutex_acquire(t) ==
    /\ at[t] \in {"mutex_wait", "reconnect_wait", "close_wait"}
    /\ lock_is_free(lock)
    /\ lock' = t
    /\ at' = [at EXCEPT ![t] = CASE at[t] = "mutex_wait" -> "attempt"
                                 [] at[t] = "reconnect_wait" -> "disconnecting"
                                 [] OTHER -> "closing"]
    /\ UNCHANGED <<thread_lock, cache_lock, attempt>>

\* func of the Drive client calls _resolve_path, which enters the PathCache
lk_resolve(t) ==
    /\ at[t] = "attempt"
    /\ backend = "gdrive"
    /\ at' = [at EXCEPT ![t] = "path_wait"]
    /\ UNCHANGED <<thread_lock, lock, cache_lock, attempt>>

\* func returns or raises, the with block of the attempt is left, and the
\* except clauses decide: the result goes to the callback, a permanent error
\* goes up, or the attempt is retried, after a sleep or at once
lk_attempt_end(t) ==
    /\ at[t] = IF backend = "gdrive" THEN "attempt_rest" ELSE "attempt"
    /\ lock' = released_on_exit(t)
    /\ \E o \in Outcomes(backend) :
         IF o.cls = "ok"
         THEN /\ at' = [at EXCEPT ![t] = "put_wait"]
              /\ attempt' = attempt
         ELSE IF on_exception(backend, o).act = "raise"
         THEN /\ at' = [at EXCEPT ![t] = "return"]
              /\ attempt' = attempt
         ELSE IF (backend = "gdrive" /\ o.cls = "HttpError429")
                 \/ sleeps_before_next(attempt[t])
         THEN /\ at' = [at EXCEPT ![t] = "sleep"]
              /\ attempt' = attempt
         ELSE /\ at' = [at EXCEPT ![t] = "loop"]
              /\ attempt' = [attempt EXCEPT ![t] = @ + 1]
    /\ UNCHANGED <<thread_lock, cache_lock>>

\* time.sleep returns: the FTP and SFTP clients go on to the reconnect, the
\* Drive client to the next attempt
lk_wake(t) ==
    /\ at[t] = "sleep"
    /\ IF backend = "gdrive"
       THEN /\ at' = [at EXCEPT ![t] = "loop"]
            /\ attempt' = [attempt EXCEPT ![t] = @ + 1]
       ELSE /\ at' = [at EXCEPT ![t] = "reconnect_wait"]
            /\ attempt' = attempt
    /\ UNCHANGED <<thread_lock, lock, cache_lock>>

\* the with block around _disconnect_internal is left, in _with_retry or in
\* disconnect()
lk_mutex_release(t) ==
    /\ at[t] \in {"disconnecting", "closing"}
    /\ lock' = released_on_exit(t)
    /\ IF at[t] = "disconnecting"
       THEN /\ at' = [at EXCEPT ![t] = "loop"]
            /\ attempt' = [attempt EXCEPT ![t] = @ + 1]
       ELSE /\ at' = [at EXCEPT ![t] = "idle"]
            /\ attempt' = attempt
    /\ UNCHANGED <<thread_lock, cache_lock>>

\* operation: the callback returns or raises and with self._thread_lock is
\* left
lk_return(t) ==
    /\ at[t] = "return"
    /\ thread_lock' = "free"
    /\ at' = [at EXCEPT ![t] = "idle"]
    /\ UNCHANGED <<lock, cache_lock, attempt>>

\* the thread that unmounts calls disconnect() of the back-end
lk_close(t) ==
    /\ at[t] = "idle"
    /\ at' = [at EXCEPT ![t] = "close_wait"]
    /\ UNCHANGED <<thread_lock, lock, cache_lock, attempt>>

\* what the lock steps leave alone
lockidle == <<fsvars, cachevars, iovars, backend, pc, tries, outcome, result, delays,
              perm, alltrans, local, ver, src, completed>>

InitLocks ==
    /\ InitFS
    /\ meta_cache = EmptyCache
    /\ backend \in Backends
    /\ InitRetry
    /\ under_test = "none"
    /\ ttl_seconds = 0
    /\ InitCaches
    /\ InitOps
    /\ InitIO

\* the steps of a thread that wait for no lock
Running(t) ==
    \/ (lk_cache_release(t) /\ UNCHANGED lockidle)
    \/ (lk_loop(t) /\ UNCHANGED lockidle)
    \/ (lk_resolve(t) /\ UNCHANGED lockidle)
    \/ (lk_attempt_end(t) /\ UNCHANGED lockidle)
    \/ (lk_wake(t) /\ UNCHANGED lockidle)
    \/ (lk_mutex_release(t) /\ UNCHANGED lockidle)
    \/ (lk_return(t) /\ UNCHANGED lockidle)

\* the steps in which a thread is given a lock it waits for
Acquiring(t) ==
    \/ (lk_enter(t) /\ UNCHANGED lockidle)
    \/ (lk_cache_acquire(t) /\ UNCHANGED lockidle)
    \/ (lk_mutex_acquire(t) /\ UNCHANGED lockidle)

NextLocks ==
    \E t \in Threads :
      \/ (lk_request(t) /\ UNCHANGED lockidle)
      \/ (lk_close(t) /\ UNCHANGED lockidle)
      \/ Running(t)
      \/ Acquiring(t)

SpecLocks == InitLocks /\ [][NextLocks]_vars

\* a thread that can run is run in the end, and a thread blocked in an acquire
\* is given the lock if the lock comes free again and again
SpecLocksFair ==
    /\ SpecLocks
    /\ \A t \in Threads : WF_vars(Running(t)) /\ SF_vars(Acquiring(t))

-----------------------------------------------------------------------------
(* The translator driven by the host driver *)

Init ==
    /\ InitFS
    /\ backend = "ftp"
    /\ InitRetry
    /\ under_test = "none"
    /\ ttl_seconds = 0
    /\ InitCaches
    /\ InitOps
    /\ InitIO

Next ==
    \/ (Callback(get_security_by_name) /\ UNCHANGED <<retryvars, cachevars, opvars, iovars>>)
    \/ (Callback(open) /\ UNCHANGED <<retryvars, cachevars, opvars, iovars>>)
    \/ (Callback(close) /\ UNCHANGED <<retryvars, cachevars, opvars, iovars>>)
    \/ (Callback(read) /\ UNCHANGED <<retryvars, cachevars, opvars, iovars>>)
    \/ (Callback(read_directory) /\ UNCHANGED <<retryvars, cachevars, opvars, iovars>>)
    \/ (Callback(write) /\ UNCHANGED <<retryvars, cachevars, opvars, iovars>>)
    \/ (Callback(flush) /\ UNCHANGED <<retryvars, cachevars, opvars, iovars>>)
    \/ (Callback(set_file_info) /\ UNCHANGED <<retryvars, cachevars, opvars, iovars>>)
    \/ (Callback(set_file_size) /\ UNCHANGED <<retryvars, cachevars, opvars, iovars>>)
    \/ (Callback(overwrite) /\ UNCHANGED <<retryvars, cachevars, opvars, iovars>>)
    \/ (Callback(create) /\ UNCHANGED <<retryvars, cachevars, opvars, iovars>>)
    \/ (Callback(cleanup) /\ UNCHANGED <<retryvars, cachevars, opvars, iovars>>)
    \/ (Callback(rename) /\ UNCHANGED <<retryvars, cachevars, opvars, iovars>>)
    \/ (deliver /\ UNCHANGED <<retryvars, cachevars, opvars, iovars>>)
    \/ (Tick /\ UNCHANGED <<retryvars, cachevars, opvars, iovars>>)

Spec == Init /\ [][Next]_vars

-----------------------------------------------------------------------------
(* The host driver browsing a server that holds two directories *)

\* the remote tree at mount time: the directories /d and /s, and the file
\* /s/x
ListRemote == [InitRemote EXCEPT ![<<"/", "d">>] = DirEntry]

InitList ==
    /\ remote = ListRemote
    /\ handle = NoHandle
    /\ meta_cache = EmptyCache
    /\ dir_cache = EmptyCache
    /\ now = 0
    /\ last = NoLast
    /\ steps = 0
    /\ scen = 0
    /\ slog = <<>>
    /\ wrote = NoWrote
    /\ backend = "ftp"
    /\ InitRetry
    /\ under_test = "none"
    /\ ttl_seconds = 0
    /\ InitCaches
    /\ InitOps
    /\ InitIO

NextList ==
    \/ (Callback(open) /\ UNCHANGED <<retryvars, cachevars, opvars, iovars>>)
    \/ (Callback(close) /\ UNCHANGED <<retryvars, cachevars, opvars, iovars>>)
    \/ (Callback(read_directory) /\ UNCHANGED <<retryvars, cachevars, opvars, iovars>>)
    \/ (Callback(create) /\ UNCHANGED <<retryvars, cachevars, opvars, iovars>>)
    \/ (Callback(cleanup) /\ UNCHANGED <<retryvars, cachevars, opvars, iovars>>)
    \/ (Callback(rename) /\ UNCHANGED <<retryvars, cachevars, opvars, iovars>>)
    \/ (deliver /\ UNCHANGED <<retryvars, cachevars, opvars, iovars>>)
    \/ (Tick /\ UNCHANGED <<retryvars, cachevars, opvars, iovars>>)

SpecList == InitList /\ [][NextList]_vars

-----------------------------------------------------------------------------
(* The translator mounted on Google Drive, where /s/x is a Workspace       *)
(* document                                                                *)

DocPath == <<"/", "s", "/", "x">>

\* the remote tree at mount time: _parse_file_stats reports size 0 for a
\* Workspace document
DocRemote == [InitRemote EXCEPT ![DocPath] = FileEntry(<<>>)]

\* GoogleDriveClient.write_file on a Workspace document: every call the
\* callback has made raised PermissionError
DocRefuses ==
    \A i \in 1..Len(last'.calls) :
        (last'.calls[i].op = "write_file" /\ last'.calls[i].path = DocPath) =>
            IF last'.op = "cleanup" THEN last'.upload_err = "AccessDenied"
            ELSE last'.err = "AccessDenied"

InitDoc ==
    /\ remote = DocRemote
    /\ handle = NoHandle
    /\ meta_cache = EmptyCache
    /\ dir_cache = EmptyCache
    /\ now = 0
    /\ last = NoLast
    /\ steps = 0
    /\ scen = 0
    /\ slog = <<>>
    /\ wrote = NoWrote
    /\ backend = "gdrive"
    /\ InitRetry
    /\ under_test = "none"
    /\ ttl_seconds = 0
    /\ InitCaches
    /\ InitOps
    /\ InitIO

NextDoc ==
    \/ (Callback(open) /\ UNCHANGED <<retryvars, cachevars, opvars, iovars>>)
    \/ (Callback(close) /\ UNCHANGED <<retryvars, cachevars, opvars, iovars>>)
    \/ (Callback(write) /\ UNCHANGED <<retryvars, cachevars, opvars, iovars>>)
    \/ (Callback(flush) /\ DocRefuses /\ UNCHANGED <<retryvars, cachevars, opvars, iovars>>)
    \/ (Callback(cleanup) /\ DocRefuses /\ UNCHANGED <<retryvars, cachevars, opvars, iovars>>)
    \/ (deliver /\ UNCHANGED <<retryvars, cachevars, opvars, iovars>>)

SpecDoc == InitDoc /\ [][NextDoc]_vars

-----------------------------------------------------------------------------
(* The three path normalizers applied to arbitrary strings *)

\* longest string handed to a normalizer
MaxPath == 4

PathChars == {"/", "\\", "a"}

PathStrings == UNION {[1..n -> PathChars] : n \in 0..MaxPath}

\* FTPFileSystem._to_ftp_path(win_path) returns
ToFtpPath(str) ==
    /\ io' = [NoIO EXCEPT !.op = "_to_ftp_path", !.data = str, !.out = to_ftp_path(str)]
    /\ UNCHANGED <<content, rest_reply>>

\* FTPClient._normalize_path(path) and SFTPClient._normalize_path(path) return
NormalizePath(str) ==
    /\ io' = [NoIO EXCEPT !.op = "_normalize_path", !.data = str,
                          !.out = normalize_path(str)]
    /\ UNCHANGED <<content, rest_reply>>

\* PathCache._normalize_path(path) returns
PcNormalizePath(str) ==
    /\ io' = [NoIO EXCEPT !.op = "PathCache._normalize_path", !.data = str,
                          !.out = pc_normalize_path(str)]
    /\ UNCHANGED <<content, rest_reply>>

InitPath ==
    /\ InitFS
    /\ backend = "ftp"
    /\ InitRetry
    /\ under_test = "none"
    /\ ttl_seconds = 0
    /\ InitCaches
    /\ InitOps
    /\ InitIO

NextPath ==
    \E str \in PathStrings :
      \/ (ToFtpPath(str) /\ UNCHANGED <<fsvars, retryvars, cachevars, opvars>>)
      \/ (NormalizePath(str) /\ UNCHANGED <<fsvars, retryvars, cachevars, opvars>>)
      \/ (PcNormalizePath(str) /\ UNCHANGED <<fsvars, retryvars, cachevars, opvars>>)

SpecPath == InitPath /\ [][NextPath]_vars

TypeOK ==
    /\ handle.file_size \in 0..MaxLen
    /\ Len(handle.buffer) <= MaxLen
    /\ \A p \in DOMAIN remote : Len(remote[p].data) <= MaxLen

-----------------------------------------------------------------------------
(* Properties *)

WriteFileCalls(calls) == {i \in 1..Len(calls) : calls[i].op = "write_file"}

\* C1: the back-end write_file is issued only by flush or cleanup, only for
\* a dirty handle, and always as write_file(handle.path, whole buffer, 0);
\* create(p); write(h, B, 0); cleanup(h, no delete) issues exactly
\* create_file(p) followed by write_file(p, B, 0).
C1_WritesAreBuffered ==
    /\ WriteFileCalls(last.calls) # {} =>
         /\ last.op \in {"flush", "cleanup"}
         /\ last.predirty
         /\ Cardinality(WriteFileCalls(last.calls)) = 1
         /\ last.calls[1] = Call("write_file", last.path, last.prebuffer, 0, 0, <<>>)
    /\ scen = 3 =>
         /\ wrote.valid
         /\ slog = <<Call("create_file", handle.path, <<>>, 0, 0, <<>>),
                     Call("write_file", handle.path, wrote.buf, 0, 0, <<>>)>>

C1_Witness == scen = 3 /\ last.op = "cleanup" /\ Len(wrote.buf) = 2

\* C2: after a successful flush of a dirty handle whose buffer held B, the
\* back-end's read_file(path, 0, None) returns B, the handle is clean and
\* the metadata cache has no entry for the path.
C2_FlushRoundTrip ==
    (last.op = "flush" /\ last.status = "OK" /\ last.predirty) =>
        /\ ftp_read_file(remote, handle.path, 0, -1, "none").err = "none"
        /\ ftp_read_file(remote, handle.path, 0, -1, "none").data = last.prebuffer
        /\ ~handle.dirty
        /\ handle.path \notin DOMAIN meta_cache

C2_Witness ==
    /\ last.op = "flush" /\ last.status = "OK" /\ last.predirty
    /\ last.prebuffer # <<>>
    /\ last.calls # <<>>

\* C3: an open handle that is dirty has a buffer, and its size is the
\* length of that buffer.
C3_HandleInvariant ==
    (handle.phase = "open" /\ handle.dirty) =>
        (handle.has_buffer /\ handle.file_size = Len(handle.buffer))

\* C4: after write(h, B, off) has returned len(B), read(h, off, len(B)) on
\* the same handle returns B.
C4_WriteThenRead ==
    (/\ last.op = "read" /\ last.status = "OK"
     /\ wrote.valid
     /\ last.offset = wrote.offset
     /\ last.length = Len(wrote.buf)) => last.ret = wrote.buf

\* C5 as stated: after every successful write, whatever the arguments,
\* the size of the handle is at least off + len(buf).
C5_SizeCoversOffsetArgument ==
    (last.op = "write" /\ last.status = "OK") =>
        handle.file_size >= last.offset + Len(last.buf)

\* C5: after every successful write the size of the handle is at least
\* the offset written at plus len(buf); the offset written at is off, or
\* the size before the call when write_to_end_of_file is set.
C5_HandleConsistency ==
    (last.op = "write" /\ last.status = "OK") =>
        handle.file_size >=
            (IF last.wte THEN last.presize ELSE last.offset) + Len(last.buf)

C5_Witness ==
    /\ last.op = "write" /\ last.status = "OK"
    /\ last.wte /\ last.offset > last.presize
    /\ last.buf # <<>>
    /\ handle.file_size = last.presize + Len(last.buf)

\* C6: read returns empty bytes without a back-end call when
\* offset >= size, and otherwise issues exactly one
\* read_file(path, offset, min(length, size - offset)).
C6_ReadClamped ==
    last.op = "read" =>
        IF last.offset >= handle.file_size
        THEN last.calls = <<>> /\ last.ret = <<>> /\ last.status = "OK"
        ELSE last.calls =
               <<Call("read_file", handle.path, <<>>, last.offset,
                      IF last.length < handle.file_size - last.offset
                      THEN last.length ELSE handle.file_size - last.offset,
                      <<>>)>>

C6_Witness ==
    /\ last.op = "read"
    /\ last.offset < handle.file_size
    /\ last.offset + last.length > handle.file_size

\* C7: creating a file at a path where the remote has a file is answered
\* with name collision and leaves that file as it was.
C7_CreateExistingRejected ==
    (/\ last.op = "create" /\ ~last.flag /\ ~last.faulted
     /\ last.pre.kind = "file") =>
        /\ last.status = "ObjectNameCollision"
        /\ remote[last.path] = last.pre

\* C8: a callback ended by a back-end error of some kind fails with the
\* host-driver code fixed for that kind.
C8_ErrorMapping ==
    last.err # "none" =>
        last.status = (CASE last.err = "NotFound" -> "ObjectNameNotFound"
                         [] last.err = "AccessDenied" -> "AccessDenied"
                         [] last.err = "TimedOut" -> "IOTimeout"
                         [] last.err = "AlreadyExists" -> "ObjectNameCollision"
                         [] last.err = "NotEmpty" -> "DirectoryNotEmpty"
                         [] OTHER -> "UnexpectedIOError")

\* C9: once an attempt has ended in not-found, access-denied,
\* already-exists or not-empty, the operation is over and its caller gets
\* that kind.
C9_PermanentNeverRetried ==
    \A t \in Threads :
        perm[t].kind # "none" =>
            (pc[t] \in {"done", "idle"} /\ result[t] = perm[t].kind)

\* C10: an operation makes at most retry_attempts attempts, and when every
\* attempt ended in a transient error it has made exactly retry_attempts
\* of them and fails to its caller.
C10_RetriesBounded ==
    \A t \in Threads :
        /\ tries[t] <= retry_attempts
        /\ (pc[t] = "done" /\ alltrans[t]) =>
              (tries[t] = retry_attempts /\ result[t] \in {"IOError", "TimedOut"})

C10_Witness ==
    \E t \in Threads :
        pc[t] = "done" /\ alltrans[t] /\ tries[t] = retry_attempts

\* the cache holds a live entry for key k
Live(c, k) == cache_get(c, k, now).found

\* C11: after a create, a delete (cleanup with the delete flag) or a
\* rename that the back-end carried out on path p, dir_cache.get(parent(p))
\* returns absent, and an entry enters the directory cache only through a
\* read_directory of that very directory.
C11_Step ==
    /\ (last'.op = "create" /\ last'.status = "OK") =>
          ~cache_get(dir_cache', parent_of(last'.path), now').found
    /\ (last'.op = "cleanup" /\ last'.flag /\ last'.deleted) =>
          ~cache_get(dir_cache', parent_of(last'.path), now').found
    /\ (last'.op = "rename" /\ last'.status = "OK") =>
          /\ ~cache_get(dir_cache', parent_of(last'.path), now').found
          /\ ~cache_get(dir_cache', parent_of(last'.buf), now').found
    /\ \A d \in RPaths :
          (d \in DOMAIN dir_cache' /\
             (d \notin DOMAIN dir_cache \/ dir_cache'[d] # dir_cache[d])) =>
          (last'.op = "read_directory" /\ last'.path = d)

C11_InvalidationOnMutation == [][C11_Step]_vars

C11_Witness ==
    /\ last.op \in {"create", "rename"} /\ last.status = "OK"
    /\ cache_get(last.predc, parent_of(last.path), now).found

\* C12: a callback that has changed the remote store (create, flush,
\* cleanup, rename) returns with no directory-cache entry for the parent
\* of the path it changed and, when that path is a file, with no
\* metadata-cache entry for the path.
C12_MutationsInvalidate ==
    (last.op \in {"create", "flush", "cleanup", "rename"} /\ remote # last.prerem) =>
        /\ ~Live(dir_cache, parent_of(last.path))
        /\ (IF last.op = "create" THEN ~last.flag ELSE ~handle.is_directory) =>
              ~Live(meta_cache, last.path)

\* C13: when the upload inside cleanup fails, cleanup does not report the
\* failure, and with the delete flag set it still issues the delete.
C13_CleanupSwallowsUploadFailure ==
    (last.op = "cleanup" /\ last.upload_err # "none") =>
        /\ last.calls[1].op = "write_file"
        /\ last.err = "none" => last.status = "OK"
        /\ IF last.flag
           THEN /\ Len(last.calls) = 2
                /\ last.calls[2] =
                     Call(IF handle.is_directory THEN "delete_dir" ELSE "delete_file",
                          last.path, <<>>, 0, 0, <<>>)
           ELSE Len(last.calls) = 1

C13_Witness ==
    /\ last.op = "cleanup" /\ last.upload_err # "none"
    /\ last.flag /\ last.deleted

\* C14: when cleanup with the delete flag returns without error, the
\* metadata cache has no entry for handle.path and the directory cache none
\* for its parent; cleanup without the delete flag issues no delete.
C14_CleanupDeleteInvalidates ==
    /\ (last.op = "cleanup" /\ last.flag /\ last.status = "OK") =>
          (~Live(meta_cache, last.path) /\ ~Live(dir_cache, parent_of(last.path)))
    /\ (last.op = "cleanup" /\ ~last.flag) =>
          \A i \in 1..Len(last.calls) :
             last.calls[i].op \notin {"delete_file", "delete_dir"}

\* C15: rename without replace_if_exists whose destination get_file_info
\* finds fails with name collision, issues no rename and no delete, and
\* leaves handle.path and both caches as they were.
C15_RenameCollision ==
    (last.op = "rename" /\ ~last.flag /\ last.found) =>
        /\ last.status = "ObjectNameCollision"
        /\ \A i \in 1..Len(last.calls) :
              last.calls[i].op \notin {"rename", "delete_file", "delete_dir"}
        /\ handle.path = last.path
        /\ dir_cache = last.predc
        /\ meta_cache = last.premc

C15_Witness ==
    /\ last.op = "rename" /\ ~last.flag /\ last.found
    /\ DOMAIN last.predc # {}
    /\ DOMAIN last.premc # {}

\* C16: rename with replace_if_exists whose destination exists issues
\* delete_dir or delete_file on the destination, by its kind, before the
\* rename, and issues the rename only when that delete has succeeded.
C16_RenameReplaceDeletesFirst ==
    (last.op = "rename" /\ last.flag /\ last.found) =>
        /\ Len(last.calls) >= 2
        /\ last.calls[2] =
             Call(IF last.buf = Root \/ is_dir(last.prerem, last.buf)
                  THEN "delete_dir" ELSE "delete_file",
                  last.buf, <<>>, 0, 0, <<>>)
        /\ \A i \in 1..Len(last.calls) :
              last.calls[i].op = "rename" => (i = 3 /\ last.deleted)

\* C17: after a successful rename handle.path is the new path, the
\* directory cache has no entry for either parent, the metadata cache none
\* for either path, and for a directory handle the directory cache has no
\* entry for the old path.
C17_RenameInvalidates ==
    (last.op = "rename" /\ last.status = "OK") =>
        /\ handle.path = last.buf
        /\ parent_of(last.path) \notin DOMAIN dir_cache
        /\ parent_of(last.buf) \notin DOMAIN dir_cache
        /\ last.path \notin DOMAIN meta_cache
        /\ last.buf \notin DOMAIN meta_cache
        /\ handle.is_directory => last.path \notin DOMAIN dir_cache

C17_Witness ==
    /\ last.op = "rename" /\ last.status = "OK"
    /\ handle.is_directory
    /\ last.path \in DOMAIN last.predc
    /\ last.path \in DOMAIN last.premc

\* C18: after a successful rename of old to a different path new, a
\* lookup of old through the translator fails with not-found and a lookup
\* of new gives the size and the kind the object had under old, whatever
\* the caches held.
C18_RenameSeenThroughTranslator ==
    (last.op = "rename" /\ last.status = "OK" /\ last.path # last.buf) =>
        /\ lookup(meta_cache, remote, last.path, now, "none").status
              = "ObjectNameNotFound"
        /\ LET l == lookup(meta_cache, remote, last.buf, now, "none")
           IN  /\ l.status = "OK"
               /\ l.is_dir = (last.pre.kind = "dir")
               /\ l.file_size = Len(last.pre.data)

C18_Witness ==
    /\ last.op = "rename" /\ last.status = "OK" /\ last.path # last.buf
    /\ cache_get(last.premc, last.path, now).found
    /\ last.pre.kind = "file" /\ last.pre.data # <<>>

\* C19: in each TTL cache a lookup serves a payload for key k only when
\* the latest put for k not invalidated since stored that payload at an
\* instant t0 <= now with now - t0 < ttl; with ttl = 0 nothing is served.
C19_CacheFreshness ==
    /\ \A h \in got.hits :
          /\ h.key \in DOMAIN hist
          /\ hist[h.key].data = h.data
          /\ hist[h.key].at <= now
          /\ now - hist[h.key].at < ttl_seconds
    /\ got.op = "get" =>
          /\ got.found = (got.hits # {})
          /\ got.found => got.hits = {[key |-> got.key, data |-> got.data]}
    /\ ttl_seconds = 0 => (got.hits = {} /\ (got.op = "get" => ~got.found))

C19_Witness ==
    /\ got.op = "get" /\ got.found
    /\ hist[got.key].at < now

\* C20: in each of the three caches a lookup that meets an expired entry
\* for key k returns with that entry out of the cache's map.
C20_ExpiredEntryRemoved ==
    \A k \in got.expired : k \notin DOMAIN CacheMap \/ k \in got.puts

\* the parent directory of each path of ParentArgs, in canonical form
ExpectedParent(path) ==
    IF path \in { <<"/", "a", "/", "b">>, <<"\\", "a", "\\", "b">>,
                  <<"/", "a", "/", "b", "/">> }
    THEN <<"/", "a">>
    ELSE <<"/">>

\* C21: invalidate_parent(path) removes the directory-cache entry keyed by
\* the parent of the normalized path and nothing else, so an entry for path
\* itself stays; the parent of "/a" is "/" and the parent of "/" is "/".
C21_InvalidateParentExact ==
    got.op = "invalidate_parent" =>
        /\ DOMAIN dir_cache = DOMAIN got.pre \ {ExpectedParent(got.key)}
        /\ \A k \in DOMAIN dir_cache : dir_cache[k] = got.pre[k]

C21_Witness ==
    /\ got.op = "invalidate_parent"
    /\ got.key = <<"/", "a", "/", "b">>
    /\ DOMAIN got.pre = CacheKeys
    /\ DOMAIN dir_cache = { <<"/">>, <<"/", "a", "/", "b">> }

\* C22: open and get_security_by_name call the back-end's get_file_info
\* exactly when the metadata cache has no live entry for the canonical
\* path; a lookup that finds the entry stored by an earlier lookup issues no
\* back-end call.
C22_LookupUsesMetadataCache ==
    last.op \in {"open", "get_security_by_name"} =>
        IF cache_get(last.premc, last.path, now).found
        THEN last.calls = <<>> /\ last.status = "OK"
        ELSE last.calls = <<Call("get_file_info", last.path, <<>>, 0, 0, <<>>)>>

C22_Witness ==
    /\ last.op \in {"open", "get_security_by_name"}
    /\ last.path = Root
    /\ cache_get(last.premc, Root, now).found
    /\ last.calls = <<>>

\* C23: read_directory calls the back-end's list_dir exactly when the
\* directory cache has no live entry for the directory; after a miss that
\* the back-end answered, the listing is stored under the directory and,
\* for the whole metadata TTL, a lookup of each listed child by its host
\* path answers with the listed size and kind without a back-end call.
C23_ReadDirectoryFillsCaches ==
    last.op = "read_directory" =>
        IF cache_get(last.predc, last.path, now).found
        THEN last.calls = <<>>
        ELSE /\ last.calls = <<Call("list_dir", last.path, <<>>, 0, 0, <<>>)>>
             /\ last.status = "OK" =>
                  LET listed == ftp_list_dir(remote, last.path, "none").list
                  IN  /\ cache_get(dir_cache, last.path, now).found
                      /\ cache_get(dir_cache, last.path, now).data =
                           [i \in 1..Len(listed) |-> EntryOf(listed[i])]
                      /\ \A i \in 1..Len(listed) :
                         \A t \in now..(now + metadata_ttl_seconds - 1) :
                         \E w \in WinPaths :
                            LET l == lookup(meta_cache, remote, to_ftp_path(w),
                                            t, "IOError")
                            IN  /\ w = replace(last.path, "/", "\\")
                                       \o (IF last.path = Root THEN <<>>
                                           ELSE <<"\\">>)
                                       \o listed[i].name
                                /\ l.status = "OK"
                                /\ l.calls = <<>>
                                /\ l.file_size = listed[i].size
                                /\ l.is_dir = listed[i].is_dir

C23_Witness ==
    /\ last.op = "read_directory" /\ last.status = "OK"
    /\ last.calls # <<>>
    /\ last.path = <<"/", "s">>
    /\ <<"/", "s", "/", "x">> \notin DOMAIN last.premc
    /\ ftp_list_dir(remote, last.path, "none").list # <<>>

\* the entries from which read_directory has answered
Listed == dir_cache[last.path].data

\* C24: read_directory with a marker returns the entries that follow the
\* entry named by the marker, in listing order, and nothing before it;
\* without a marker it returns the whole listing.
C24_MarkerResumes ==
    (last.op = "read_directory" /\ last.status = "OK") =>
        /\ last.path \in DOMAIN dir_cache
        /\ last.marker = <<>> => last.entries = Listed
        /\ \A i \in 1..Len(Listed) :
              Listed[i].name = last.marker =>
                 last.entries = [j \in 1..(Len(Listed) - i) |-> Listed[i + j]]

C24_Witness ==
    /\ last.op = "read_directory" /\ last.status = "OK"
    /\ Len(Listed) = 2
    /\ Listed[2].name = last.marker
    /\ last.entries = <<>>

\* the positions at which a thread is executing against the session:
\* connect, disconnect, an attempt (with _ensure_connected), the disconnect
\* before the next attempt
SessionSteps == {"connect", "close", "attempt", "disconnect"}

\* C25: on every back-end a thread executes against the remote session
\* only while it holds the back-end's mutex, so at most one thread at a
\* time does.
C25_SessionUnderMutex ==
    /\ \A t \in Threads : pc[t] \in SessionSteps => lock = t
    /\ Cardinality({t \in Threads : pc[t] \in SessionSteps}) <= 1

C25_Witness ==
    \E t, u \in Threads :
        /\ pc[t] = "disconnect" /\ lock = t
        /\ pc[u] \in {"acquire", "reconnect"}

\* C26: a thread that waits out the delay between two attempts does not
\* hold the back-end's mutex, whoever else asks for it.
C26_SleepsWithoutMutex ==
    \A t \in Threads : pc[t] \in {"failed", "sleep", "reconnect"} => lock # t

C26_Witness ==
    \E t, u \in Threads :
        /\ pc[t] = "sleep"
        /\ pc[u] = "attempt" /\ lock = u /\ tries[u] = 1
        /\ tries[t] = 1

\* C27: once a callback that changed the server and invalidated a cache
\* key has returned on one thread, whatever the directory or metadata cache
\* holds under that key, on any thread, was fetched from the server after
\* that change; otherwise the key is absent.
C27_CacheVisibility ==
    /\ OpDir \in DOMAIN dir_cache => src[OpDir] >= completed[OpDir]
    /\ OpFile \in DOMAIN meta_cache => src[OpFile] >= completed[OpFile]

C27_Witness ==
    \E t, u \in Threads :
        /\ t # u
        /\ at[u] = "return" /\ thread_lock = u /\ at[t] = "idle"
        /\ completed[OpDir] = 2 /\ completed[OpFile] = 1
        /\ OpDir \in DOMAIN dir_cache /\ src[OpDir] = 2
        /\ OpFile \in DOMAIN meta_cache /\ src[OpFile] = 2

\* the bytes of c from offset up to offset + length, or up to the end of c
\* when that comes first or when length is None
Range(c, offset, length) ==
    LET stop == IF length < 0 \/ offset + length > Len(c) THEN Len(c) ELSE offset + length
    IN  [i \in 1..(IF stop > offset THEN stop - offset ELSE 0) |-> c[offset + i]]

\* C28: the FTP client's read_file returns the remote bytes from offset to
\* min(offset + length, size), and nothing at or past the end, whether the
\* server accepts REST, does not advertise it, or advertises and rejects it.
C28_ReadReturnsRange ==
    (io.op = "read_file" /\ backend = "ftp") =>
        io.out = Range(io.pre, io.offset, io.length)

\* the content a write of data at offset is to leave: old bytes outside the
\* range, NUL bytes between the old end and offset
Replaced(pre, data, offset) ==
    LET n == IF offset + Len(data) > Len(pre) THEN offset + Len(data) ELSE Len(pre)
    IN  [i \in 1..n |->
            IF i > offset /\ i <= offset + Len(data) THEN data[i - offset]
            ELSE IF i <= Len(pre) THEN pre[i] ELSE 0]

\* C29: on every back-end a successful write_file leaves the previous
\* content with the bytes at offset .. offset + len(data) replaced by the
\* data, the bytes before and after kept, and NUL bytes in any gap.
C29_WriteReplacesRange ==
    io.op = "write_file" => content = Replaced(io.pre, io.data, io.offset)

\* C30: a write through a handle opened on a Workspace document is
\* answered with access-denied, and the document on Drive stays as it was.
C30_DocumentIsReadOnly ==
    (last.op = "write" /\ last.path = DocPath) =>
        /\ last.status = "AccessDenied"
        /\ remote[DocPath] = DocRemote[DocPath]

\* a canonical path: leading "/", no back-slash, no trailing "/" unless it
\* is the root, no empty segment
Canonical(p) ==
    /\ startswith(p, "/")
    /\ ~contains(p, "\\")
    /\ (p = Root \/ p[Len(p)] # "/")
    /\ \A i \in 1..(Len(p) - 1) : ~(p[i] = "/" /\ p[i + 1] = "/")

\* C34: whatever string it is given, the translator's _to_ftp_path returns
\* a canonical path.
C34_ToFtpPathCanonical ==
    io.op = "_to_ftp_path" => Canonical(io.out)

\* C35: each of the three normalizers gives its own result back when it is
\* applied to that result.
C35_NormalizersIdempotent ==
    /\ io.op = "_to_ftp_path" => to_ftp_path(io.out) = io.out
    /\ io.op = "_normalize_path" => normalize_path(io.out) = io.out
    /\ io.op = "PathCache._normalize_path" => pc_normalize_path(io.out) = io.out

\* the keys invalidate_children is to remove, read to the letter: the
\* prefix itself and what starts with prefix + "/"
UnderLiteral(k, prefix) ==
    \/ k = prefix
    \/ Len(k) > Len(prefix) /\ SubSeq(k, 1, Len(prefix) + 1) = prefix \o <<"/">>

\* the same, with the root taken as the prefix of every path
Under(k, prefix) == prefix = Root \/ UnderLiteral(k, prefix)

\* C37 as stated: invalidate_children(prefix) removes the keys equal to
\* prefix or starting with prefix + "/" and keeps every other entry as it
\* was.
C37_SubtreeLiteral ==
    got.op = "invalidate_children" =>
        /\ DOMAIN path_cache =
              { k \in DOMAIN got.pre : ~UnderLiteral(k, pc_normalize_path(got.key)) }
        /\ \A k \in DOMAIN path_cache : path_cache[k] = got.pre[k]

\* C37 amended: invalidate_children(prefix) removes the keys equal to the
\* normalized prefix or lying under it, which for the root is every key,
\* and keeps every other entry as it was; "/ab" is not under "/a".
C37_SubtreeRemoved ==
    got.op = "invalidate_children" =>
        /\ DOMAIN path_cache =
              { k \in DOMAIN got.pre : ~Under(k, pc_normalize_path(got.key)) }
        /\ \A k \in DOMAIN path_cache : path_cache[k] = got.pre[k]

C37_Witness ==
    /\ got.op = "invalidate_children"
    /\ got.key = <<"/", "a">>
    /\ DOMAIN got.pre = SubtreeKeys
    /\ DOMAIN path_cache = { <<"/", "a", "b">>, <<"/", "b">> }

\* C33: in the retry loop of the Drive client a 429 answer to attempt k
\* (counted from 0) is followed by a sleep of retry_delay_seconds * 2^k, any
\* other retried failure by a sleep of retry_delay_seconds, every attempt
\* after the first has one sleep before it, and func is never called more
\* than retry_attempts times.
C33_DriveBackoff ==
    backend = "gdrive" =>
        \A t \in Threads :
            /\ tries[t] <= retry_attempts
            /\ pc[t] = "sleep" =>
                  /\ delays[t] # <<>>
                  /\ delays[t][Len(delays[t])] =
                        IF outcome[t].cls = "HttpError429"
                        THEN retry_delay_seconds * 2^(attempt[t])
                        ELSE retry_delay_seconds
            /\ pc[t] \in {"acquire", "attempt"} => Len(delays[t]) = attempt[t]

C33_Witness ==
    /\ backend = "gdrive"
    /\ \E t \in Threads :
          /\ pc[t] = "sleep"
          /\ outcome[t].cls = "HttpError429"
          /\ attempt[t] = 1
          /\ delays[t] = <<retry_delay_seconds, 2 * retry_delay_seconds>>

\* C36: when close follows a create and a write of B at offset 0 on the
\* created handle, with no flush and no cleanup in between, the remote file
\* of the handle holds exactly B once close has returned.
C36_CloseFlushes ==
    [][(scen = 2 /\ wrote.valid /\ wrote.offset = 0 /\ last'.op = "close") =>
          remote'[last'.path] = FileEntry(wrote.buf)]_vars

\* C38: at most one thread is inside a callback body of the translator at
\* any time, and from the entry of the body to its return, back-end calls
\* included, that thread holds the translator's one _thread_lock.
C38_CallbacksExclusive ==
    \A t, u \in Threads :
        /\ (at[t] # "idle" /\ at[u] # "idle") => t = u
        /\ at[t] # "idle" => thread_lock = t

C38_Witness ==
    \E t, u \in Threads :
        /\ t # u
        /\ at[t] = "put_meta" /\ thread_lock = t
        /\ at[u] = "idle"
        /\ ver = 1

\* C39: after a successful rename of a directory old to another path, no
\* entry of the metadata cache or of the directory cache whose key lies
\* strictly under old is served any more, so an open of a child of old is
\* not answered from what was cached before the rename.
C39_RenameDropsSubtree ==
    (last.op = "rename" /\ last.status = "OK" /\ last.pre.kind = "dir"
       /\ last.path # last.buf) =>
        \A k \in DOMAIN meta_cache \cup DOMAIN dir_cache :
            (k # last.path /\ UnderLiteral(k, last.path)) =>
                /\ ~cache_get(meta_cache, k, now).found
                /\ ~cache_get(dir_cache, k, now).found

\* the keys that lie below the folder d
Below(k, d) ==
    d = Root \/ (Len(k) > Len(d) /\ SubSeq(k, 1, Len(d) + 1) = d \o <<"/">>)

\* C32: after a successful write_file, create_file, create_dir, delete_file,
\* delete_dir or rename of the Drive client, the path-to-ID cache holds no
\* entry for the path changed (for a rename: the old and the new path) nor
\* for any path below the folder that holds it.
C32_MutationDropsIds ==
    (io.op \in {"write_file", "create_file", "create_dir", "delete_file",
                "delete_dir", "rename"} /\ io.ret = 1) =>
        \A p \in (IF io.op = "rename" THEN {io.data, io.out} ELSE {io.data}) :
            \A k \in DOMAIN path_cache :
                /\ k # pc_normalize_path(p)
                /\ ~Below(k, parent_of(pc_normalize_path(p)))

\* C31: every entry of a listing the Drive client returns for a folder p is
\* found by get_file_info(p + "/" + name) with the size and the kind the
\* listing gave, the entries shown with an export extension included.
C31_ListThenStat ==
    (io.op = "list_dir" /\ io.ret = 1) =>
        \A e \in io.out :
            \A r \in {gd_get_file_info(path_cache, drive,
                                        io.data \o <<"/">> \o e.name, now, ttl_seconds)} :
                /\ r.ok
                /\ r.stats.size = e.size
                /\ r.stats.is_dir = e.is_dir

\* the locks a thread holds and the lock it waits for, by its position
Holds(t) ==
    (IF thread_lock = t THEN {"translator"} ELSE {})
      \cup (IF lock = t THEN {"backend"} ELSE {})
      \cup (IF \E c \in CacheObjects : cache_lock[c] = t THEN {"cache"} ELSE {})

WaitsFor(t) ==
    CASE at[t] = "want" -> {"translator"}
      [] at[t] \in {"mutex_wait", "reconnect_wait", "close_wait"} -> {"backend"}
      [] at[t] \in {"get_wait", "put_wait", "path_wait"} -> {"cache"}
      [] OTHER -> {}

\* translator lock before back-end lock before cache lock
LockRank(l) == CASE l = "translator" -> 1 [] l = "backend" -> 2 [] OTHER -> 3

====
